---- MODULE Spec2Model ----
(***************************************************************************)
(* A model of the tool-calling orchestration of OAIT:                      *)
(*   - OpenRouterClient.chat_with_tools   (src/src/oait/api/openrouter.py) *)
(*   - the transport bridge: AIToolHandlers._request_from_client           *)
(*     (src/src/oait/tools/ai_tools.py) and websocket_endpoint             *)
(*     (src/src/oait/server/websocket_server.py)                           *)
(* Spec      : one call of chat_with_tools against an arbitrary reasoner.  *)
(* SpecBridge: client connections, each with its pending-request table,    *)
(*             its receive loop and its AI task.                           *)
(***************************************************************************)
EXTENDS Naturals, Sequences, FiniteSets, TLC

(***************************************************************************)
(* Bounds of the model.                                                    *)
(***************************************************************************)
MaxIter == 2        \* max_iterations ranges over 0..MaxIter
MaxCalls == 2       \* a reasoner response requests at most MaxCalls tool calls
MaxTurns == 6       \* the message list grows to at most MaxTurns turns
MaxRequests == 2    \* a connection issues at most MaxRequests client requests

\* the client connections of the model
Conns == {"conn_a", "conn_b"}

(***************************************************************************)
(* State of one call of chat_with_tools.                                   *)
(***************************************************************************)
VARIABLES
    max_iterations, \* the parameter max_iterations
    iteration,      \* the local iteration
    messages,       \* the (mutated) message list
    response,       \* the local response: the last response obtained
    cpc,            \* control point of chat_with_tools
    tc_index,       \* position of the for loop in tool_calls
    sent,           \* history: the message list as last submitted to the reasoner
    roundtrips,     \* history: number of self.chat calls made
    invoked,        \* history: <<iteration, index>> of every handler invoked
    obtained,       \* history: the last response the reasoner gave
    result          \* what the call returned or raised

chatVars == <<max_iterations, iteration, messages, response, cpc, tc_index,
              sent, roundtrips, invoked, obtained, result>>

(***************************************************************************)
(* State of the transport bridge, per client connection (one run of        *)
(* websocket_endpoint: its locals, its ToolContext, its AI task).          *)
(***************************************************************************)
VARIABLES
    ws_open,          \* the client is still connected
    recv,             \* the receive loop: "running", "cleanup" (in finally,
                      \* awaiting ai_task) or "closed"
    is_running,       \* tool_ooda.is_running
    ai,               \* control point of the AI task
    cancel_req,       \* ai_task.cancel() was called and is not yet delivered
    request_counter,  \* ctx.request_counter
    pending_requests, \* the keys of ctx.pending_requests
    futures,          \* request id -> the Future created for it, while the
                      \* table or the waiting call still refers to it
    cur,              \* the local request_id of _request_from_client
    timer,            \* the timeout of asyncio.wait_for: "off", "armed", "fired"
    ret,              \* history: how _request_from_client last ended, and the
                      \* state its Future was left in
    wb,               \* history: what get_whiteboard last returned
    ws_log,           \* history: the last thing the receive loop did
    at_stop           \* history: the ids whose future was pending, and the
                      \* control point of the AI task, when finally began

bridgeVars == <<ws_open, recv, is_running, ai, cancel_req, request_counter,
                pending_requests, futures, cur, timer, ret, wb, ws_log,
                at_stop>>

(***************************************************************************)
(* State of one ToolOODALoop (start, run_cycle) and of its AIToolHandlers. *)
(***************************************************************************)
VARIABLES
    lpc,                  \* control point of start(): "idle" (start() has
                          \* not begun), "exchange" (run_cycle awaits the
                          \* reasoner), "handlers" (chat_with_tools runs the
                          \* tool calls), "sleep", "backoff", "returned",
                          \* "cancelled" (CancelledError left start())
    loop_is_running,      \* self.is_running of the loop
    cycle_count,          \* self.cycle_count
    cycle_iteration,      \* the local iteration of run_cycle
    cycle_response,       \* the response whose tool calls are being run
    tc_pos,               \* position of chat_with_tools in its tool calls
    tools_called,         \* result.tools_called
    spoke_to_student,     \* result.spoke_to_student
    final_action,         \* result.final_action
    reasoning,            \* result.reasoning
    message_history,      \* len(self.message_history)
    observation_mode,     \* handlers._observation_mode
    observation_interval, \* handlers._observation_interval
    sleeping,             \* the delay of the asyncio.sleep in progress
    stopped,              \* history: stop() has been called
    cancelled,            \* history: the task of start() has been cancelled
    requested,            \* history: the tool calls of the responses the
                          \* reasoner gave in this cycle, in order
    cycle_roundtrips,     \* history: reasoner round-trips of this cycle
    cycle_end,            \* history: what ended the last cycle
    failure,              \* history: the failure met in this cycle
    last_set,             \* history: the last set_observation_mode that ran
    offered,              \* history: the tools and tool_handlers of each
                          \* chat_with_tools call of this cycle, in order
    dispatched            \* history: the positions in `requested` of the
                          \* tool calls handed to their handlers, in order

loopVars == <<lpc, loop_is_running, cycle_count, cycle_iteration,
              cycle_response, tc_pos, tools_called, spoke_to_student,
              final_action, reasoning, message_history, observation_mode,
              observation_interval, sleeping, stopped, cancelled, requested,
              cycle_roundtrips, cycle_end, failure, last_set, offered,
              dispatched>>

(***************************************************************************)
(* One call of a tool handler: what it is given and how it ends.           *)
(***************************************************************************)
VARIABLES
    hcall,  \* the handler called and what its collaborators do
    hout    \* how the call ended

handlerVars == <<hcall, hout>>

(***************************************************************************)
(* State the tool handlers read and write, in the ToolContext and in the   *)
(* session, and the tool call being served.                                *)
(***************************************************************************)
VARIABLES
    tcall,                  \* the tool call last served, with its arguments
    tresult,                \* the mapping its handler returned
    tclock,                 \* time.time(), one unit per handler call
    got,                    \* history: what get_observation_mode returned
                            \* last, since the last set_observation_mode
    last_intervention_time, \* ctx.session_state.last_intervention_time
    to_client,              \* the messages _send_to_client has sent
    wpc,                    \* control point of wait_for_event: "idle",
                            \* "min_wait", "head" (at its while), "poll",
                            \* "poll_sleep", "returned"
    wnow,                   \* time.time() in wait_for_event, in half seconds
    wstart,                 \* the local start_time of wait_for_event
    wpolls,                 \* history: polls wait_for_event has made
    last_poll,              \* history: when its last poll ended
    transcripts,            \* ctx.session_state.student_speech_buffer
    last_speech_time,       \* ctx.last_speech_time
    transcribed,            \* history: calls of whisper_stt.transcribe
    profile,                \* ctx.student_model.pedagogy_profile
    saved,                  \* history: calls of repository.save
    active_sessions,        \* is the session in active_sessions
    active_connections,     \* is its websocket in active_connections
    fcall,                  \* a call of a function of the cognitive layer,
                            \* with its arguments
    fresult                 \* what the call returned

callVars == <<tcall, tresult, tclock>>

modeVars == <<got, last_intervention_time, to_client>>

waitVars == <<wpc, wnow, wstart, wpolls, last_poll>>

audioVars == <<transcripts, last_speech_time, transcribed>>

profileVars == <<profile, saved>>

serverVars == <<active_sessions, active_connections>>

cognitiveVars == <<fcall, fresult>>

toolVars == <<callVars, modeVars, waitVars, audioVars, profileVars,
              serverVars, cognitiveVars>>

vars == <<chatVars, bridgeVars, loopVars, handlerVars, toolVars>>

(***************************************************************************)
(* Tool calls the reasoner may request.  A tool call is {id, function:     *)
(* {name, arguments}} with arguments a JSON-encoded string.                *)
(***************************************************************************)
HandlerNames == {"get_whiteboard", "get_audio_transcript", "speak",
                 "set_observation_mode", "end_observation_cycle"}

ToolCalls ==
    { [id |-> "call_1", name |-> "get_whiteboard", arguments |-> "{}"],
      [id |-> "call_2", name |-> "bogus_tool",     arguments |-> "{}"],
      [id |-> "call_3", name |-> "get_whiteboard", arguments |-> "{bad"],
      [id |-> "call_4", name |-> "bogus_tool",     arguments |-> "{bad"],
      [id |-> "call_5", name |-> "get_whiteboard", arguments |-> "[]"],
      [id |-> "call_6", name |-> "get_whiteboard", arguments |-> "{\"x\": 1}"],
      [id |-> "call_7", name |-> "speak",          arguments |-> "{}"] }

FinishReasons == {"stop", "tool_calls"}

SeqsUpTo(S, n) == UNION { [1..k -> S] : k \in 0..n }

Min(a, b) == IF a < b THEN a ELSE b

\* the responses the reasoner may give when the history holds n turns
Responses(n) ==
    LET room == IF n + 1 < MaxTurns THEN MaxTurns - (n + 1) ELSE 0
    IN  [tool_calls : SeqsUpTo(ToolCalls, Min(MaxCalls, room)),
         finish_reason : FinishReasons]

\* the local `response` before the first assignment
Unbound == [tool_calls |-> <<>>, finish_reason |-> "<unbound>"]

InitialMessages == << [role |-> "system", tool_call_id |-> "", content |-> "prompt",
                       tool_calls |-> <<>>] >>

(***************************************************************************)
(* json.loads on the argument strings of the model.                        *)
(***************************************************************************)
JsonValid(s) == s \in {"{}", "[]", "{\"x\": 1}"}

\* json.loads(s) for the strings it accepts: is the value an object, and
\* the keys it has if it is
JsonLoads(s) ==
    CASE s = "{}" -> [object |-> TRUE, keys |-> {}]
      [] s = "[]" -> [object |-> FALSE, keys |-> {}]
      [] s = "{\"x\": 1}" -> [object |-> TRUE, keys |-> {"x"}]

\* the parameters of the handlers, and those without a default
Parameters(name) ==
    CASE name = "get_whiteboard" ->
             [accepted |-> {"analyze"}, required |-> {}]
      [] name = "get_audio_transcript" ->
             [accepted |-> {"seconds"}, required |-> {}]
      [] name = "speak" ->
             [accepted |-> {"text", "tone"}, required |-> {"text"}]
      [] name = "set_observation_mode" ->
             [accepted |-> {"mode", "interval_seconds"}, required |-> {"mode"}]
      [] name = "end_observation_cycle" ->
             [accepted |-> {"next_action", "reasoning"},
              required |-> {"next_action", "reasoning"}]

\* the TypeError of `tool_handlers[tool_name](**arguments)`, "" when the
\* call binds its arguments
BindError(name, arguments) ==
    IF ~arguments.object
    THEN "argument after ** must be a mapping"
    ELSE IF ~(arguments.keys \subseteq Parameters(name).accepted)
    THEN "got an unexpected keyword argument"
    ELSE IF ~(Parameters(name).required \subseteq arguments.keys)
    THEN "missing 1 required positional argument"
    ELSE ""

JsonDumpsError(msg) == "{\"error\": \"" \o msg \o "\"}"

(***************************************************************************)
(* The turns chat_with_tools appends.                                      *)
(***************************************************************************)
AssistantTurn(r) ==
    [role |-> "assistant", tool_call_id |-> "", content |-> "None",
     tool_calls |-> r.tool_calls]

\* a tool turn that loses the id of its call
ToolTurnUntagged(tool_id, result_str) ==
    [role |-> "tool", tool_call_id |-> "", content |-> result_str,
     tool_calls |-> <<>>]

ToolTurn(tool_id, result_str) ==
    [role |-> "tool", tool_call_id |-> tool_id, content |-> result_str,
     tool_calls |-> <<>>]

\* the outcome of the call: nothing yet, a returned response, or an exception
NoResult == [kind |-> "none", value |-> Unbound]
Returned(r) == [kind |-> "returned", value |-> r]
Raised(e) == [kind |-> e, value |-> Unbound]

\* a loop guard that is off by one
MayIterateOffByOne(i, m) == i <= m

\* `while iteration < max_iterations`
MayIterate(i, m) == i < m

\* a terminal test that forgets the completion reason
IsFinalIgnoringStop(r) == r.tool_calls = <<>>

\* `if not tool_calls or finish_reason == "stop"`
IsFinal(r) == r.tool_calls = <<>> \/ r.finish_reason = "stop"

(***************************************************************************)
(* What one pass of the body of `for tool_call in tool_calls` can do:      *)
(* the result_str it appends, whether a handler was invoked, and the       *)
(* exception that escapes the try statement ("none" when nothing does).    *)
(* A handler returns a dict, raises an Exception, or is cancelled at one   *)
(* of its awaits (CancelledError is no Exception and is not caught).       *)
(***************************************************************************)
HandlerResult == "{\"has_content\": false}"

\* a dispatch that indexes the mapping without the membership test: the
\* KeyError of an unknown name is caught by `except Exception`
ToolOutcomesNoLookup(call) ==
    IF ~JsonValid(call.arguments)
    THEN { [content |-> JsonDumpsError("Invalid arguments: Expecting value"),
            invoked |-> FALSE, raises |-> "none"] }
    ELSE IF call.name \in HandlerNames
    THEN { [content |-> HandlerResult, invoked |-> TRUE, raises |-> "none"] }
    ELSE { [content |-> JsonDumpsError("'" \o call.name \o "'"),
            invoked |-> FALSE, raises |-> "none"] }

\* a dispatch that parses the arguments outside the try statement
ToolOutcomesParseUnguarded(call) ==
    IF ~JsonValid(call.arguments)
    THEN { [content |-> "", invoked |-> FALSE, raises |-> "JSONDecodeError"] }
    ELSE IF call.name \in HandlerNames
    THEN { [content |-> HandlerResult, invoked |-> TRUE, raises |-> "none"] }
    ELSE { [content |-> JsonDumpsError("Unknown tool: " \o call.name),
            invoked |-> FALSE, raises |-> "none"] }

\* a dispatch that calls the handler outside the try statement
ToolOutcomesCallUnguarded(call) ==
    IF ~JsonValid(call.arguments)
    THEN { [content |-> JsonDumpsError("Invalid arguments: Expecting value"),
            invoked |-> FALSE, raises |-> "none"] }
    ELSE IF call.name \in HandlerNames
    THEN IF BindError(call.name, JsonLoads(call.arguments)) # ""
         THEN { [content |-> "", invoked |-> FALSE, raises |-> "TypeError"] }
         ELSE { [content |-> HandlerResult, invoked |-> TRUE,
                 raises |-> "none"],
                [content |-> "", invoked |-> TRUE, raises |-> "Exception"],
                [content |-> "", invoked |-> TRUE,
                 raises |-> "CancelledError"] }
    ELSE { [content |-> JsonDumpsError("Unknown tool: " \o call.name),
            invoked |-> FALSE, raises |-> "none"] }

ToolOutcomes(call) ==
    IF ~JsonValid(call.arguments)
    THEN { [content |-> JsonDumpsError("Invalid arguments: Expecting value"),
            invoked |-> FALSE, raises |-> "none"] }
    ELSE IF call.name \in HandlerNames
    THEN IF BindError(call.name, JsonLoads(call.arguments)) # ""
    \* the call raises TypeError before the handler runs
    THEN { [content |->
                JsonDumpsError(BindError(call.name, JsonLoads(call.arguments))),
            invoked |-> FALSE, raises |-> "none"] }
    ELSE { [content |-> HandlerResult, invoked |-> TRUE, raises |-> "none"],
           [content |-> JsonDumpsError("handler failed"),
            invoked |-> TRUE, raises |-> "none"],
           [content |-> "", invoked |-> TRUE, raises |-> "CancelledError"] }
    ELSE { [content |-> JsonDumpsError("Unknown tool: " \o call.name),
            invoked |-> FALSE, raises |-> "none"] }

(***************************************************************************)
(* chat_with_tools                                                         *)
(***************************************************************************)
ChatInit ==
    /\ max_iterations \in 0..MaxIter
    /\ iteration = 0
    /\ messages = InitialMessages
    /\ response = Unbound
    /\ cpc = "head"
    /\ tc_index = 0
    /\ sent = <<>>
    /\ roundtrips = 0
    /\ invoked = <<>>
    /\ obtained = Unbound
    /\ result = NoResult

\* `while iteration < max_iterations: iteration += 1; await self.chat(...)`
SendRequest ==
    /\ cpc = "head"
    /\ MayIterate(iteration, max_iterations)
    /\ iteration' = iteration + 1
    /\ roundtrips' = roundtrips + 1
    /\ sent' = messages
    /\ cpc' = "await_chat"
    /\ UNCHANGED <<max_iterations, messages, response, tc_index, invoked,
                   obtained, result>>
    /\ UNCHANGED <<bridgeVars, loopVars, handlerVars, toolVars>>

\* the loop ends at the ceiling: `return response`
ReturnAtCeiling ==
    /\ cpc = "head"
    /\ ~MayIterate(iteration, max_iterations)
    /\ IF response = Unbound
       THEN cpc' = "raised" /\ result' = Raised("UnboundLocalError")
       ELSE cpc' = "returned" /\ result' = Returned(response)
    /\ UNCHANGED <<max_iterations, iteration, messages, response, tc_index,
                   sent, roundtrips, invoked, obtained>>
    /\ UNCHANGED <<bridgeVars, loopVars, handlerVars, toolVars>>

\* self.chat returns r
ChatReturns ==
    /\ cpc = "await_chat"
    /\ \E r \in Responses(Len(messages)) :
        /\ response' = r
        /\ obtained' = r
        /\ IF IsFinal(r)
           THEN /\ cpc' = "returned"
                /\ result' = Returned(r)
                /\ UNCHANGED <<messages, tc_index>>
           ELSE /\ messages' = Append(messages, AssistantTurn(r))
                /\ tc_index' = 1
                /\ cpc' = "dispatch"
                /\ UNCHANGED result
    /\ UNCHANGED <<max_iterations, iteration, sent, roundtrips, invoked>>
    /\ UNCHANGED <<bridgeVars, loopVars, handlerVars, toolVars>>

\* self.chat raises httpx.HTTPError
ChatRaises ==
    /\ cpc = "await_chat"
    /\ cpc' = "raised"
    /\ result' = Raised("HTTPError")
    /\ UNCHANGED <<max_iterations, iteration, messages, response, tc_index,
                   sent, roundtrips, invoked, obtained>>
    /\ UNCHANGED <<bridgeVars, loopVars, handlerVars, toolVars>>

\* the task is cancelled while it awaits self.chat
ChatCancelled ==
    /\ cpc = "await_chat"
    /\ cpc' = "cancelled"
    /\ result' = Raised("CancelledError")
    /\ UNCHANGED <<max_iterations, iteration, messages, response, tc_index,
                   sent, roundtrips, invoked, obtained>>
    /\ UNCHANGED <<bridgeVars, loopVars, handlerVars, toolVars>>

\* one pass of `for tool_call in tool_calls`
DispatchToolCall ==
    /\ cpc = "dispatch"
    /\ LET call == response.tool_calls[tc_index] IN
       \E o \in ToolOutcomes(call) :
          /\ invoked' = IF o.invoked
                        THEN Append(invoked, <<iteration, tc_index>>)
                        ELSE invoked
          /\ IF o.raises = "none"
             THEN /\ messages' = Append(messages, ToolTurn(call.id, o.content))
                  /\ IF tc_index < Len(response.tool_calls)
                     THEN tc_index' = tc_index + 1 /\ cpc' = "dispatch"
                     ELSE tc_index' = tc_index /\ cpc' = "head"
                  /\ UNCHANGED result
             ELSE /\ cpc' = IF o.raises = "CancelledError" THEN "cancelled" ELSE "raised"
                  /\ result' = Raised(o.raises)
                  /\ UNCHANGED <<messages, tc_index>>
    /\ UNCHANGED <<max_iterations, iteration, response, sent, roundtrips, obtained>>
    /\ UNCHANGED <<bridgeVars, loopVars, handlerVars, toolVars>>

ChatNext ==
    \/ SendRequest
    \/ ReturnAtCeiling
    \/ ChatReturns
    \/ ChatRaises
    \/ ChatCancelled
    \/ DispatchToolCall


(***************************************************************************)
(* Properties of chat_with_tools (checked under Spec).                     *)
(***************************************************************************)
Range(f) == { f[i] : i \in DOMAIN f }

\* the tool calls of the last response
Requested == response.tool_calls

\* the last response asked for tool calls and they are being, or have
\* been, dispatched
InCycle ==
    \/ cpc = "dispatch"
    \/ cpc \in {"head", "returned"} /\ response # Unbound /\ ~IsFinal(response)

\* how many of the requested calls have been dispatched
DispatchedCount == IF cpc = "dispatch" THEN tc_index - 1 ELSE Len(Requested)

\* the turn appended for the i-th requested call
TurnOf(i) == messages[Len(sent) + 1 + i]

ErrorTexts == {"Invalid arguments: Expecting value", "handler failed",
               "argument after ** must be a mapping",
               "got an unexpected keyword argument",
               "missing 1 required positional argument"}
                  \cup {"Unknown tool: " \o c.name : c \in ToolCalls}

IsStructuredError(content) == \E e \in ErrorTexts : content = JsonDumpsError(e)

\* C1: with max_iterations >= 1, one call makes at most max_iterations
\* reasoner round-trips; a call that ends has returned the last response
\* obtained, also at the ceiling, and raises only when the reasoner
\* transport itself fails.
C1_IterationCeiling ==
    /\ roundtrips <= max_iterations
    /\ (cpc = "returned") => (result = Returned(obtained) /\ obtained # Unbound)
    /\ (cpc = "raised" /\ max_iterations >= 1) => result.kind = "HTTPError"
    /\ (cpc = "head" /\ max_iterations >= 1 /\ iteration >= max_iterations)
            => (response = obtained /\ response # Unbound)

\* the ceiling is hit: every response asked for tool calls
C1_Witness ==
    /\ cpc = "returned"
    /\ max_iterations >= 2
    /\ roundtrips = max_iterations
    /\ ~IsFinal(result.value)

\* C2, as amended: after a response that requests tool calls c1..cn and
\* whose completion reason is not "stop", the history is extended by
\* exactly one assistant turn carrying the calls and then one tool turn
\* per call, the i-th tagged with the id of ci; the loop is back at its
\* head, and the next request is sent, only when all n are there.
C2_TurnsInOrder ==
    /\ InCycle =>
        /\ Len(messages) = Len(sent) + 1 + DispatchedCount
        /\ SubSeq(messages, 1, Len(sent)) = sent
        /\ messages[Len(sent) + 1] = AssistantTurn(response)
        /\ \A i \in 1..DispatchedCount :
              /\ TurnOf(i).role = "tool"
              /\ TurnOf(i).tool_call_id = Requested[i].id
    /\ (cpc = "await_chat" /\ iteration > 1) =>
        LET n == Len(Requested)
            b == Len(messages) - (n + 1)
        IN  /\ Len(messages) > n + 1
            /\ messages = sent
            /\ messages[b + 1] = AssistantTurn(response)
            /\ \A i \in 1..n :
                  /\ messages[b + 1 + i].role = "tool"
                  /\ messages[b + 1 + i].tool_call_id = Requested[i].id

\* a second request goes out after two differently tagged tool turns
C2_Witness ==
    /\ cpc = "await_chat"
    /\ iteration = 2
    /\ Len(Requested) = 2
    /\ Requested[1].id # Requested[2].id

\* C2 as stated: after every response that requests tool calls the turns
\* are appended.
C2_Original ==
    (cpc = "returned" /\ Len(result.value.tool_calls) > 0) =>
        /\ Len(messages) = Len(sent) + 1 + Len(result.value.tool_calls)
        /\ messages[Len(sent) + 1] = AssistantTurn(result.value)

\* C3, as amended: for a tool name that is no key of the handler mapping,
\* dispatch invokes no handler and appends a tool turn whose content is
\* the error "Unknown tool: <name>" when the argument string is valid
\* JSON, and the invalid-arguments error when it is not; dispatch raises
\* nothing.
C3_UnknownTool ==
    /\ InCycle =>
        \A i \in 1..DispatchedCount :
            Requested[i].name \notin HandlerNames =>
                /\ <<iteration, i>> \notin Range(invoked)
                /\ TurnOf(i).content =
                      IF JsonValid(Requested[i].arguments)
                      THEN JsonDumpsError("Unknown tool: " \o Requested[i].name)
                      ELSE JsonDumpsError("Invalid arguments: Expecting value")
    /\ cpc = "raised" => result.kind \in {"HTTPError", "UnboundLocalError"}

\* an unknown tool with valid arguments and one with malformed arguments
\* have both been dispatched
C3_Witness ==
    /\ cpc = "head"
    /\ InCycle
    /\ Len(Requested) = 2
    /\ Requested[1].name \notin HandlerNames /\ JsonValid(Requested[1].arguments)
    /\ Requested[2].name \notin HandlerNames /\ ~JsonValid(Requested[2].arguments)

\* C3 as stated: every unknown tool name gets the Unknown tool error.
C3_Original ==
    InCycle =>
        \A i \in 1..DispatchedCount :
            Requested[i].name \notin HandlerNames =>
                TurnOf(i).content =
                    JsonDumpsError("Unknown tool: " \o Requested[i].name)

\* C4: a tool call whose argument string is not valid JSON invokes no
\* handler and gets a structured error tool turn; the calls after it are
\* dispatched all the same, and the parse failure does not leave dispatch.
C4_MalformedArguments ==
    /\ InCycle =>
        \A i \in 1..DispatchedCount :
            ~JsonValid(Requested[i].arguments) =>
                /\ <<iteration, i>> \notin Range(invoked)
                /\ TurnOf(i).role = "tool"
                /\ IsStructuredError(TurnOf(i).content)
    /\ (InCycle /\ cpc \in {"head", "returned"}) =>
            Len(messages) = Len(sent) + 1 + Len(Requested)
    /\ result.kind \in {"none", "returned", "HTTPError", "UnboundLocalError",
                        "CancelledError"}

\* a handler ran for the call that follows a malformed one
C4_Witness ==
    /\ cpc = "head"
    /\ InCycle
    /\ Len(Requested) = 2
    /\ ~JsonValid(Requested[1].arguments)
    /\ <<iteration, 2>> \in Range(invoked)

\* the arguments are JSON and the tool has a handler, which they do not fit
Misfit(call) ==
    /\ JsonValid(call.arguments)
    /\ call.name \in HandlerNames
    /\ BindError(call.name, JsonLoads(call.arguments)) # ""

\* C35: a tool call whose arguments are JSON but do not fit its handler (no
\* object, an unknown parameter, a required parameter missing) runs no
\* handler and gets an error tool turn tagged with its id; a call whose
\* handler ran and raised gets an error tool turn as well; in both cases
\* the calls after it are dispatched, every requested call has its turn
\* when dispatch is over, and no such error leaves chat_with_tools.
C35_DispatchGoesOn ==
    /\ InCycle =>
        \A i \in 1..DispatchedCount :
            /\ TurnOf(i).role = "tool"
            /\ TurnOf(i).tool_call_id = Requested[i].id
            /\ Misfit(Requested[i]) =>
                  /\ <<iteration, i>> \notin Range(invoked)
                  /\ IsStructuredError(TurnOf(i).content)
            /\ <<iteration, i>> \in Range(invoked) =>
                  TurnOf(i).content \in
                      {HandlerResult, JsonDumpsError("handler failed")}
    /\ (InCycle /\ cpc \in {"head", "returned"}) =>
            Len(messages) = Len(sent) + 1 + Len(Requested)
    /\ cpc = "raised" => result.kind \in {"HTTPError", "UnboundLocalError"}

\* the handler of the first call raised, and the second call, whose
\* arguments do not fit, was dispatched after it: both have error turns
C35_Witness ==
    /\ cpc = "head"
    /\ InCycle
    /\ Len(Requested) = 2
    /\ <<iteration, 1>> \in Range(invoked)
    /\ TurnOf(1).content = JsonDumpsError("handler failed")
    /\ Misfit(Requested[2])
    /\ IsStructuredError(TurnOf(2).content)

\* C5: a response with no tool calls, or with completion reason "stop",
\* is returned at once: nothing is appended, no handler is invoked, and
\* once the call has returned no further request is made.
C5_FinalResponse ==
    [][ /\ (cpc = "await_chat" /\ cpc' \in {"returned", "dispatch"}
                /\ (response'.tool_calls = <<>> \/ response'.finish_reason = "stop"))
            => /\ cpc' = "returned"
               /\ result' = Returned(response')
               /\ messages' = messages
               /\ invoked' = invoked
               /\ roundtrips' = roundtrips
        /\ cpc = "returned"
            => UNCHANGED <<cpc, messages, invoked, roundtrips, result>>
      ]_vars

\* a response with completion reason "stop" that lists tool calls was
\* returned in the second iteration
C5_Witness ==
    /\ cpc = "returned"
    /\ iteration = 2
    /\ result.value.finish_reason = "stop"
    /\ Len(result.value.tool_calls) > 0
    /\ messages = sent

(***************************************************************************)
(* The loop: values of ToolOODALoop and AIToolHandlers.                    *)
(***************************************************************************)
MaxCycles == 2      \* start() begins at most MaxCycles cycles
MaxCycleCalls == 2  \* the reasoner requests at most MaxCycleCalls tool calls
                    \* in one cycle
MaxHistory == 1     \* message_history grows to at most MaxHistory entries

CycleMaxIterations == 10    \* `max_iterations = 10` of run_cycle
LoopInterval == 5           \* `self._observation_interval = 5.0` of the loop
DefaultInterval == 5        \* `self._observation_interval = 5.0` of the handlers
ShortInterval == 2          \* `interval = 2.0`
Cooldown == 5               \* `await asyncio.sleep(5.0)`
ActiveInterval == 3         \* `self._observation_interval = 3.0`
PassiveInterval == 10       \* `self._observation_interval = 10.0`
InterventionInterval == 1   \* `self._observation_interval = 1.0`

\* Python's None, where a string is expected
None == "None"

\* a delay: a number of seconds, a JSON value that is no number (the
\* reasoner wrote "interval_seconds": "fast"), or None
Seconds(n) == [kind |-> "seconds", value |-> n]
NotANumber == [kind |-> "text", value |-> 0]
NoInterval == [kind |-> "none", value |-> 0]

\* a tool call as the loop sees it: the name, whether the argument string
\* is valid JSON, and the arguments it holds
CycleCall(name, valid, mode, interval_seconds, next_action, why) ==
    [name |-> name, valid |-> valid, mode |-> mode,
     interval_seconds |-> interval_seconds, next_action |-> next_action,
     reasoning |-> why]

PlainCall(name) == CycleCall(name, TRUE, None, NoInterval, None, None)

SetModeCall(mode, interval_seconds) ==
    CycleCall("set_observation_mode", TRUE, mode, interval_seconds, None, None)

EndCall(next_action, why) ==
    CycleCall("end_observation_cycle", TRUE, None, NoInterval, next_action, why)

\* end_observation_cycle with an argument string json.loads rejects
EndCallMalformed ==
    CycleCall("end_observation_cycle", FALSE, None, NoInterval, None, None)

\* a speak whose arguments json.loads rejects
SpeakCallMalformed ==
    CycleCall("speak", FALSE, None, NoInterval, None, None)

\* the response run_cycle holds while no tool call is being run
NoCycleResponse ==
    [tool_calls |-> <<>>, finish_reason |-> "<none>", content |-> FALSE,
     empty |-> FALSE]

\* no set_observation_mode has run
NoSet == [mode |-> None, interval_seconds |-> NoInterval]

\* a ToolOODALoop as constructed, with its AIToolHandlers
LoopInit ==
    /\ lpc = "idle"
    /\ loop_is_running = FALSE
    /\ cycle_count = 0
    /\ cycle_iteration = 0
    /\ cycle_response = NoCycleResponse
    /\ tc_pos = 0
    /\ tools_called = <<>>
    /\ spoke_to_student = FALSE
    /\ final_action = None
    /\ reasoning = None
    /\ message_history = 0
    /\ observation_mode = "active"
    /\ observation_interval = Seconds(DefaultInterval)
    /\ sleeping = NoInterval
    /\ stopped = FALSE
    /\ cancelled = FALSE
    /\ requested = <<>>
    /\ cycle_roundtrips = 0
    /\ cycle_end = "none"
    /\ failure = "none"
    /\ last_set = NoSet
    /\ offered = <<>>
    /\ dispatched = <<>>

(***************************************************************************)
(* A handler call: the handler, and what the things it depends on do.      *)
(***************************************************************************)
NoHandlerCall ==
    [name |-> "", client |-> "", whisper |-> "", vision |-> "",
     repository |-> "", student_model |-> "", session_state |-> ""]

NoOutcome == [kind |-> "none", error |-> ""]

HandlersInit ==
    /\ hcall = NoHandlerCall
    /\ hout = NoOutcome

\* a value of a profile field: a member of an enum, or a number
EnumValue(name) == [kind |-> "enum", name |-> name, number |-> 0]
NumberValue(x) == [kind |-> "number", name |-> "", number |-> x]

\* an optional numeric argument: left out, or given as x
NotGiven == [given |-> FALSE, number |-> 0]
Given(x) == [given |-> TRUE, number |-> x]

\* PedagogyProfile() as create_default_model makes it
DefaultProfile ==
    [patience_level |-> EnumValue("medium"),
     preferred_learning_style |-> "visual",
     optimal_intervention_delay |-> 30]

\* no tool call served yet
NoToolCall == [name |-> ""]
NoToolResult == [pending |-> TRUE]
NoGot == [result |-> NoToolResult, times |-> 0]

\* the ToolContext and the session as websocket_endpoint builds them
ToolsAtRest ==
    /\ tcall = NoToolCall
    /\ tresult = NoToolResult
    /\ tclock = 0
    /\ got = NoGot
    /\ last_intervention_time = 0
    /\ to_client = <<>>
    /\ wpc = "idle"
    /\ wnow = 0
    /\ wstart = 0
    /\ wpolls = 0
    /\ last_poll = 0
    /\ transcripts = <<>>
    /\ last_speech_time = 0
    /\ transcribed = 0
    /\ profile = DefaultProfile
    /\ saved = 0
    /\ active_sessions = TRUE
    /\ active_connections = TRUE

ToolsInit ==
    /\ ToolsAtRest
    /\ fcall = NoToolCall
    /\ fresult = NoToolResult

(***************************************************************************)
(* The transport bridge.                                                   *)
(***************************************************************************)

\* `request_id = f"tool_req_{self.ctx.request_counter}"`
RequestId(n) == "tool_req_" \o ToString(n)

IssuedIds == { RequestId(n) : n \in 1..MaxRequests }

\* request_id of a client message: an id the server issues, one it never
\* issues, or none at all
MessageIds == IssuedIds \cup {"tool_req_0", ""}

\* the dicts that travel over the bridge: a client message, or the error
\* dict _request_from_client makes up
NoData == [type |-> "none", error |-> "", data |-> "", has_changes |-> FALSE]
ErrorDict(e) == [type |-> "error", error |-> e, data |-> "", has_changes |-> FALSE]

Payloads ==
    { [type |-> "response", error |-> "", data |-> "img", has_changes |-> TRUE],
      [type |-> "response", error |-> "", data |-> "", has_changes |-> FALSE] }

ResponseMessages == [request_id : MessageIds, payload : Payloads]

\* asyncio.Future
NoFuture == [state |-> "NONE", result |-> NoData]
PendingFuture == [state |-> "PENDING", result |-> NoData]
CancelledFuture == [state |-> "CANCELLED", result |-> NoData]
\* a future that is done but holds nothing of the message
SetResultWithoutPayload(data) == [state |-> "FINISHED", result |-> NoData]
\* future.set_result(data)
SetResult(data) == [state |-> "FINISHED", result |-> data]

NoReturn == [request_id |-> "", outcome |-> "none", value |-> NoData,
             future |-> "NONE"]
NoWhiteboard == [has_content |-> FALSE, has_changes |-> FALSE, error |-> "<not called>"]
NoLog == "none"
\* nothing recorded: the `finally` of websocket_endpoint has not run
NotStopped == [pending |-> {}, ai |-> ""]

\* get_whiteboard without its `if response.get("error")`
GetWhiteboardIgnoringError(resp) ==
    [has_content |-> resp.data # "", has_changes |-> resp.has_changes,
     error |-> ""]

\* get_whiteboard, from the answer of _request_from_client on
GetWhiteboard(resp) ==
    IF resp.error # ""
    THEN [has_content |-> FALSE, has_changes |-> FALSE, error |-> resp.error]
    ELSE [has_content |-> resp.data # "", has_changes |-> resp.has_changes,
          error |-> ""]

\* `if request_id and request_id in pending_requests`
KnownRequest(table, request_id) == request_id # "" /\ request_id \in table

\* the state when the clients of `connected` have connected: for each,
\* websocket_endpoint has accepted, built its ToolContext and ToolOODALoop,
\* and created ai_task; the other connections never come up
BridgeInit(connected) ==
    /\ ws_open = [c \in Conns |-> c \in connected]
    /\ recv = [c \in Conns |-> IF c \in connected THEN "running" ELSE "closed"]
    /\ is_running = [c \in Conns |-> FALSE]
    /\ ai = [c \in Conns |-> IF c \in connected THEN "initial_sleep" ELSE "done"]
    /\ cancel_req = [c \in Conns |-> FALSE]
    /\ request_counter = [c \in Conns |-> 0]
    /\ pending_requests = [c \in Conns |-> {}]
    /\ futures = [c \in Conns |-> [i \in IssuedIds |-> NoFuture]]
    /\ cur = [c \in Conns |-> ""]
    /\ timer = [c \in Conns |-> "off"]
    /\ ret = [c \in Conns |-> NoReturn]
    /\ wb = [c \in Conns |-> NoWhiteboard]
    /\ ws_log = [c \in Conns |-> NoLog]
    /\ at_stop = [c \in Conns |-> NotStopped]

\* a `finally` that calls tool_ooda.stop() and leaves ai_task alone
FinallyStopOnly(c, event) ==
    /\ ws_log' = [ws_log EXCEPT ![c] = event]
    /\ is_running' = [is_running EXCEPT ![c] = FALSE]
    /\ at_stop' = [at_stop EXCEPT ![c] =
            [pending |-> { i \in pending_requests[c] :
                             futures[c][i].state = "PENDING" },
             ai |-> ai[c]]]
    /\ recv' = [recv EXCEPT ![c] = IF ai[c] = "done" THEN "closed" ELSE "cleanup"]
    /\ UNCHANGED <<ws_open, ai, cancel_req, futures, request_counter,
                   pending_requests, cur, timer, ret, wb>>

\* the `finally` of websocket_endpoint up to `await ai_task`:
\* tool_ooda.stop(), then ai_task.cancel(), which cancels the future the
\* task is waiting on
Finally(c, event) ==
    /\ ws_log' = [ws_log EXCEPT ![c] = event]
    /\ is_running' = [is_running EXCEPT ![c] = FALSE]
    /\ at_stop' = [at_stop EXCEPT ![c] =
            [pending |-> { i \in pending_requests[c] :
                             futures[c][i].state = "PENDING" },
             ai |-> ai[c]]]
    /\ IF ai[c] = "done"
       THEN /\ recv' = [recv EXCEPT ![c] = "closed"]
            /\ UNCHANGED <<cancel_req, futures>>
       ELSE /\ recv' = [recv EXCEPT ![c] = "cleanup"]
            /\ cancel_req' = [cancel_req EXCEPT ![c] = TRUE]
            /\ futures' = IF ai[c] = "wait" /\ futures[c][cur[c]].state = "PENDING"
                          THEN [futures EXCEPT ![c][cur[c]] = CancelledFuture]
                          ELSE futures
    /\ UNCHANGED <<ws_open, ai, request_counter, pending_requests, cur, timer,
                   ret, wb>>

\* the client goes away
ClientDisconnects(c) ==
    /\ UNCHANGED <<chatVars, loopVars, handlerVars, toolVars>>
    /\ ws_open[c]
    /\ recv[c] = "running"
    /\ ws_open' = [ws_open EXCEPT ![c] = FALSE]
    /\ UNCHANGED <<recv, is_running, ai, cancel_req, request_counter,
                   pending_requests, futures, cur, timer, ret, wb, ws_log,
                   at_stop>>

\* websocket.receive_json() raises WebSocketDisconnect
ReceiveDisconnect(c) ==
    /\ UNCHANGED <<chatVars, loopVars, handlerVars, toolVars>>
    /\ recv[c] = "running"
    /\ ~ws_open[c]
    /\ Finally(c, "disconnect")

\* a receive loop whose pending table is one table for every connection: the
\* response resolves the request of that id wherever it is pending
ReceiveResponseShared(c, m) ==
    /\ UNCHANGED <<chatVars, loopVars, handlerVars, toolVars>>
    /\ recv[c] = "running"
    /\ IF \E d \in Conns : KnownRequest(pending_requests[d], m.request_id)
       THEN /\ futures' =
                  [d \in Conns |->
                      IF /\ KnownRequest(pending_requests[d], m.request_id)
                         /\ futures[d][m.request_id].state = "PENDING"
                      THEN [futures[d] EXCEPT ![m.request_id] =
                                                  SetResult(m.payload)]
                      ELSE futures[d]]
            /\ ws_log' = [ws_log EXCEPT ![c] = "resolved"]
            /\ UNCHANGED <<ws_open, recv, is_running, ai, cancel_req,
                           request_counter, pending_requests, cur, timer,
                           ret, wb, at_stop>>
       ELSE /\ ws_log' = [ws_log EXCEPT ![c] = "unknown"]
            /\ UNCHANGED <<ws_open, recv, is_running, ai, cancel_req,
                           request_counter, pending_requests, futures, cur,
                           timer, ret, wb, at_stop>>

\* the receive loop gets a message of type "response":
\* process_client_response(data)
ReceiveResponse(c, m) ==
    /\ UNCHANGED <<chatVars, loopVars, handlerVars, toolVars>>
    /\ recv[c] = "running"
    /\ IF KnownRequest(pending_requests[c], m.request_id)
       THEN IF futures[c][m.request_id].state = "PENDING"
            THEN /\ futures' = [futures EXCEPT ![c][m.request_id] = SetResult(m.payload)]
                 /\ ws_log' = [ws_log EXCEPT ![c] = "resolved"]
                 /\ UNCHANGED <<ws_open, recv, is_running, ai, cancel_req,
                                request_counter, pending_requests, cur, timer,
                                ret, wb, at_stop>>
            \* set_result on a future that is done raises InvalidStateError,
            \* which `except Exception` of the endpoint catches
            ELSE Finally(c, "error")
       ELSE /\ ws_log' = [ws_log EXCEPT ![c] = "unknown"]
            /\ UNCHANGED <<ws_open, recv, is_running, ai, cancel_req,
                           request_counter, pending_requests, futures, cur,
                           timer, ret, wb, at_stop>>

\* `await ai_task` returns; the connection is forgotten
CleanupDone(c) ==
    /\ UNCHANGED <<chatVars, loopVars, handlerVars, toolVars>>
    /\ recv[c] = "cleanup"
    /\ ai[c] = "done"
    /\ recv' = [recv EXCEPT ![c] = "closed"]
    /\ UNCHANGED <<ws_open, is_running, ai, cancel_req, request_counter,
                   pending_requests, futures, cur, timer, ret, wb, ws_log,
                   at_stop>>

\* ai_loop: the initial sleep is over, tool_ooda.start() begins
AIStart(c) ==
    /\ UNCHANGED <<chatVars, loopVars, handlerVars, toolVars>>
    /\ ai[c] = "initial_sleep"
    /\ ~cancel_req[c]
    /\ ai' = [ai EXCEPT ![c] = "idle"]
    /\ is_running' = [is_running EXCEPT ![c] = TRUE]
    /\ UNCHANGED <<ws_open, recv, cancel_req, request_counter, pending_requests,
                   futures, cur, timer, ret, wb, ws_log, at_stop>>

\* CancelledError is thrown into the task at an await outside the bridge
\* (the initial sleep, the reasoner exchange, the inter-cycle sleep)
AICancelled(c) ==
    /\ UNCHANGED <<chatVars, loopVars, handlerVars, toolVars>>
    /\ ai[c] \in {"initial_sleep", "idle"}
    /\ cancel_req[c]
    /\ ai' = [ai EXCEPT ![c] = "done"]
    /\ cancel_req' = [cancel_req EXCEPT ![c] = FALSE]
    /\ UNCHANGED <<ws_open, recv, is_running, request_counter, pending_requests,
                   futures, cur, timer, ret, wb, ws_log, at_stop>>

\* `while self.is_running` ends the loop after stop()
AIFinish(c) ==
    /\ UNCHANGED <<chatVars, loopVars, handlerVars, toolVars>>
    /\ ai[c] = "idle"
    /\ ~cancel_req[c]
    /\ ~is_running[c]
    /\ ai' = [ai EXCEPT ![c] = "done"]
    /\ UNCHANGED <<ws_open, recv, is_running, cancel_req, request_counter,
                   pending_requests, futures, cur, timer, ret, wb, ws_log,
                   at_stop>>

\* a _request_from_client that sends first and registers the future when
\* send_json has returned
BeginRequestSendsFirst(c) ==
    /\ UNCHANGED <<chatVars, loopVars, handlerVars, toolVars>>
    /\ ai[c] = "idle"
    /\ ~cancel_req[c]
    /\ request_counter[c] < MaxRequests
    /\ request_counter' = [request_counter EXCEPT ![c] = @ + 1]
    /\ cur' = [cur EXCEPT ![c] = RequestId(request_counter[c] + 1)]
    /\ ai' = [ai EXCEPT ![c] = "send"]
    /\ UNCHANGED <<ws_open, recv, is_running, cancel_req, timer, ret, wb, ws_log,
                   at_stop, pending_requests, futures>>

\* _request_from_client up to `await websocket.send_json(...)`
BeginRequest(c) ==
    /\ UNCHANGED <<chatVars, loopVars, handlerVars, toolVars>>
    /\ ai[c] = "idle"
    /\ ~cancel_req[c]
    /\ request_counter[c] < MaxRequests
    /\ LET request_id == RequestId(request_counter[c] + 1) IN
        /\ request_counter' = [request_counter EXCEPT ![c] = @ + 1]
        /\ futures' = [futures EXCEPT ![c][request_id] = PendingFuture]
        /\ pending_requests' = [pending_requests EXCEPT ![c] = @ \cup {request_id}]
        /\ cur' = [cur EXCEPT ![c] = request_id]
    /\ ai' = [ai EXCEPT ![c] = "send"]
    /\ UNCHANGED <<ws_open, recv, is_running, cancel_req, timer, ret, wb, ws_log,
                   at_stop>>

\* a _request_from_client that returns without the pop of its finally
RequestReturnsKeepsEntry(c, value, future_state) ==
    /\ ret' = [ret EXCEPT ![c] =
            [request_id |-> cur[c], outcome |-> "returned", value |-> value,
             future |-> future_state]]
    /\ wb' = [wb EXCEPT ![c] = GetWhiteboard(value)]
    /\ cur' = [cur EXCEPT ![c] = ""]
    /\ timer' = [timer EXCEPT ![c] = "off"]
    /\ ai' = [ai EXCEPT ![c] = "idle"]
    /\ UNCHANGED <<pending_requests, futures>>

\* _request_from_client returns `value` (the finally pops the entry), and
\* get_whiteboard goes on with it
RequestReturns(c, value, future_state) ==
    /\ pending_requests' = [pending_requests EXCEPT ![c] = @ \ {cur[c]}]
    /\ futures' = [futures EXCEPT ![c][cur[c]] = NoFuture]
    /\ ret' = [ret EXCEPT ![c] =
            [request_id |-> cur[c], outcome |-> "returned", value |-> value,
             future |-> future_state]]
    /\ wb' = [wb EXCEPT ![c] = GetWhiteboard(value)]
    /\ cur' = [cur EXCEPT ![c] = ""]
    /\ timer' = [timer EXCEPT ![c] = "off"]
    /\ ai' = [ai EXCEPT ![c] = "idle"]

\* CancelledError leaving _request_from_client without the pop
RequestCancelledKeepsEntry(c) ==
    /\ ret' = [ret EXCEPT ![c] =
            [request_id |-> cur[c], outcome |-> "CancelledError", value |-> NoData,
             future |-> futures[c][cur[c]].state]]
    /\ cur' = [cur EXCEPT ![c] = ""]
    /\ timer' = [timer EXCEPT ![c] = "off"]
    /\ ai' = [ai EXCEPT ![c] = "done"]
    /\ cancel_req' = [cancel_req EXCEPT ![c] = FALSE]
    /\ UNCHANGED <<wb, pending_requests, futures>>

\* CancelledError leaves _request_from_client (the finally pops the entry)
\* and ends the task: start() breaks out of its loop
RequestCancelled(c) ==
    /\ pending_requests' = [pending_requests EXCEPT ![c] = @ \ {cur[c]}]
    /\ futures' = [futures EXCEPT ![c][cur[c]] = NoFuture]
    /\ ret' = [ret EXCEPT ![c] =
            [request_id |-> cur[c], outcome |-> "CancelledError", value |-> NoData,
             future |-> futures[c][cur[c]].state]]
    /\ cur' = [cur EXCEPT ![c] = ""]
    /\ timer' = [timer EXCEPT ![c] = "off"]
    /\ ai' = [ai EXCEPT ![c] = "done"]
    /\ cancel_req' = [cancel_req EXCEPT ![c] = FALSE]
    /\ UNCHANGED wb

\* send_json is done: it went out, or it raised because the client is gone
SendDone(c) ==
    /\ UNCHANGED <<chatVars, loopVars, handlerVars, toolVars>>
    /\ ai[c] = "send"
    /\ ~cancel_req[c]
    /\ IF ws_open[c]
       THEN /\ ai' = [ai EXCEPT ![c] = "wait"]
            /\ timer' = [timer EXCEPT ![c] = "armed"]
            /\ UNCHANGED <<pending_requests, futures, ret, wb, cur>>
       ELSE RequestReturns(c, ErrorDict("send failed"), futures[c][cur[c]].state)
    /\ UNCHANGED <<ws_open, recv, is_running, cancel_req, request_counter,
                   ws_log, at_stop>>

\* the task is cancelled while send_json is suspended
SendCancelled(c) ==
    /\ UNCHANGED <<chatVars, loopVars, handlerVars, toolVars>>
    /\ ai[c] = "send"
    /\ cancel_req[c]
    /\ RequestCancelled(c)
    /\ UNCHANGED <<ws_open, recv, is_running, request_counter, ws_log,
                   at_stop>>

\* the timeout of asyncio.wait_for expires.  Depending on the Python
\* version the future is cancelled at once (3.12: the timeout cancels the
\* task, which cancels the future it awaits) or when wait_for resumes.
TimerFires(c) ==
    /\ UNCHANGED <<chatVars, loopVars, handlerVars, toolVars>>
    /\ ai[c] = "wait"
    /\ timer[c] = "armed"
    /\ timer' = [timer EXCEPT ![c] = "fired"]
    /\ \/ UNCHANGED futures
       \/ /\ futures[c][cur[c]].state = "PENDING"
          /\ futures' = [futures EXCEPT ![c][cur[c]] = CancelledFuture]
    /\ UNCHANGED <<ws_open, recv, is_running, ai, cancel_req, request_counter,
                   pending_requests, cur, ret, wb, ws_log, at_stop>>

\* how `await asyncio.wait_for(future, timeout)` can end when the task
\* resumes: "result", "timeout" or "cancelled"
WaitOutcomes(future, tmr, cancelling) ==
    IF cancelling
    THEN IF future.state = "FINISHED"
         \* 3.12 delivers the cancellation; wait_for of 3.9 to 3.11 returns
         \* the result and swallows it
         THEN {"cancelled", "result"}
         ELSE {"cancelled"}
    ELSE IF future.state = "FINISHED"
         THEN IF tmr = "fired" THEN {"result", "timeout"} ELSE {"result"}
         ELSE IF tmr = "fired" THEN {"timeout"} ELSE {}

\* the task resumes from wait_for
Resume(c) ==
    /\ UNCHANGED <<chatVars, loopVars, handlerVars, toolVars>>
    /\ ai[c] = "wait"
    /\ \E o \in WaitOutcomes(futures[c][cur[c]], timer[c], cancel_req[c]) :
        \/ /\ o = "result"
           /\ RequestReturns(c, futures[c][cur[c]].result, "FINISHED")
           /\ cancel_req' = [cancel_req EXCEPT ![c] = FALSE]
        \* wait_for cancels a future that is still pending before it raises
        \/ /\ o = "timeout"
           /\ RequestReturns(c, ErrorDict("timeout"),
                             IF futures[c][cur[c]].state = "PENDING"
                             THEN "CANCELLED" ELSE futures[c][cur[c]].state)
           /\ UNCHANGED cancel_req
        \/ /\ o = "cancelled"
           /\ RequestCancelled(c)
    /\ UNCHANGED <<ws_open, recv, is_running, request_counter, ws_log,
                   at_stop>>

BridgeNext ==
    \E c \in Conns :
        \/ ClientDisconnects(c)
        \/ ReceiveDisconnect(c)
        \/ \E m \in ResponseMessages : ReceiveResponse(c, m)
        \/ CleanupDone(c)
        \/ AIStart(c)
        \/ AICancelled(c)
        \/ AIFinish(c)
        \/ BeginRequest(c)
        \/ SendDone(c)
        \/ SendCancelled(c)
        \/ TimerFires(c)
        \/ Resume(c)

InitBridge ==
    /\ ChatInit
    /\ LoopInit
    /\ HandlersInit
    /\ ToolsInit
    /\ max_iterations = 0
    /\ BridgeInit({"conn_a"})

SpecBridge == InitBridge /\ [][BridgeNext]_vars

\* the event loop runs every task that is ready and every timer that is due
BridgeFairness ==
    \A c \in Conns :
        /\ WF_vars(CleanupDone(c))
        /\ WF_vars(AICancelled(c))
        /\ WF_vars(AIFinish(c))
        /\ WF_vars(SendDone(c))
        /\ WF_vars(SendCancelled(c))
        /\ WF_vars(TimerFires(c))
        /\ WF_vars(Resume(c))

FairBridge == SpecBridge /\ BridgeFairness

(***************************************************************************)
(* SpecSessions: two connections at once, exchanging requests and          *)
(* responses (timeouts and the teardown after a receive-loop error         *)
(* included; no client goes away).                                         *)
(***************************************************************************)
InitSessions ==
    /\ ChatInit
    /\ LoopInit
    /\ HandlersInit
    /\ ToolsInit
    /\ max_iterations = 0
    /\ BridgeInit(Conns)

SessionsNext ==
    \E c \in Conns :
        \/ \E m \in ResponseMessages : ReceiveResponse(c, m)
        \/ CleanupDone(c)
        \/ AIStart(c)
        \/ AIFinish(c)
        \/ BeginRequest(c)
        \/ SendDone(c)
        \/ SendCancelled(c)
        \/ TimerFires(c)
        \/ Resume(c)

SpecSessions == InitSessions /\ [][SessionsNext]_vars

(***************************************************************************)
(* SpecReconnect: one session whose client, once the endpoint is through   *)
(* with its socket, opens another socket on the same session id.  Both     *)
(* connections belong to the session of active_sessions.                   *)
(***************************************************************************)

\* websocket_endpoint from its entry to `ai_task = asyncio.create_task(...)`
\* for a socket the client opens when no endpoint serves a socket of its
WebsocketAccepted(c) ==
    /\ active_sessions
    /\ \A d \in Conns : recv[d] = "closed"
    /\ recv[c] = "closed"
    /\ request_counter[c] = 0
    /\ ws_open' = [ws_open EXCEPT ![c] = TRUE]
    /\ recv' = [recv EXCEPT ![c] = "running"]
    /\ is_running' = [is_running EXCEPT ![c] = FALSE]
    /\ ai' = [ai EXCEPT ![c] = "initial_sleep"]
    /\ cancel_req' = [cancel_req EXCEPT ![c] = FALSE]
    /\ pending_requests' = [pending_requests EXCEPT ![c] = {}]
    /\ request_counter' = [request_counter EXCEPT ![c] = 0]
    /\ UNCHANGED <<futures, cur, timer, ret, wb, ws_log, at_stop>>
    /\ UNCHANGED <<chatVars, loopVars, handlerVars, toolVars>>

ReconnectNext ==
    \/ BridgeNext
    \/ \E c \in Conns : WebsocketAccepted(c)

SpecReconnect == InitBridge /\ [][ReconnectNext]_vars

\* the correlation ids the requests of a connection have been given
IssuedBy(c) == { RequestId(n) : n \in 1..request_counter[c] }

\* C34 (as stated): within a session the correlation ids never repeat: no
\* id is given to two requests of the session.
C34_Original ==
    \A c \in Conns :
        \A d \in Conns \ {c} : IssuedBy(c) \cap IssuedBy(d) = {}

(***************************************************************************)
(* Properties of the transport bridge.                                     *)
(***************************************************************************)

\* C6: a response whose request_id is pending resolves the future of
\* exactly that request with the message payload, and resolves or removes
\* no other entry, of this connection or of another; the resolved entry is
\* removed when the call that issued it ends (the `finally` of
\* _request_from_client), and nothing else is removed with it; what the
\* resumed call returns from the client is the payload.
C6_ResponseResolves ==
    [][ \A c \in Conns :
          /\ \A m \in ResponseMessages :
                ( /\ ReceiveResponse(c, m)
                  /\ m.request_id \in pending_requests[c]
                  /\ futures[c][m.request_id].state = "PENDING" )
                => /\ futures'[c][m.request_id] =
                          [state |-> "FINISHED", result |-> m.payload]
                   /\ \A d \in Conns, i \in IssuedIds :
                          <<d, i>> # <<c, m.request_id>>
                          => futures'[d][i] = futures[d][i]
                   /\ pending_requests' = pending_requests
          /\ \A i \in pending_requests[c] :
                futures[c][i].state = "FINISHED"
                => (ai[c] \in {"send", "wait"} /\ cur[c] = i)
          /\ (cur[c] # "" /\ cur'[c] # cur[c])
                => /\ pending_requests'[c] = pending_requests[c] \ {cur[c]}
                   /\ \A d \in Conns \ {c} :
                          pending_requests'[d] = pending_requests[d]
                   /\ ret'[c].value.type = "response"
                          => ret'[c].value = futures[c][cur[c]].result
      ]_vars

\* one connection got the payload for its tool_req_1 and dropped the entry
\* while the other connection still waits for its own tool_req_1
C6_Witness ==
    /\ ret["conn_a"].request_id = "tool_req_1"
    /\ ret["conn_a"].outcome = "returned"
    /\ ret["conn_a"].value \in Payloads
    /\ "tool_req_1" \notin pending_requests["conn_a"]
    /\ "tool_req_1" \in pending_requests["conn_b"]
    /\ futures["conn_b"]["tool_req_1"].state = "PENDING"
    /\ ai["conn_b"] = "wait"

\* C7 as stated: a response whose request_id is not pending (never issued,
\* or already resolved or timed out) is discarded: the pending table and
\* every suspended request are left as they are, and the receive loop
\* keeps running.
C7_Original ==
    [][ \A c \in Conns, m \in ResponseMessages :
          ( /\ ReceiveResponse(c, m)
            /\ ~( /\ m.request_id \in pending_requests[c]
                  /\ futures[c][m.request_id].state = "PENDING" ) )
          => /\ pending_requests' = pending_requests
             /\ futures' = futures
             /\ ai' = ai
             /\ cancel_req' = cancel_req
             /\ is_running' = is_running
             /\ recv'[c] = "running"
      ]_vars

\* C8: a request the client never answers ends, once its timeout has
\* expired, with _request_from_client returning the error "timeout" and
\* the entry gone from the table; get_whiteboard then returns has_content
\* false with the error "timeout"; and no call stays suspended for ever.
C8_Timeout ==
    /\ [](\A c \in Conns :
            (ret[c].outcome = "returned" /\ ret[c].value.error = "timeout")
            => /\ ret[c].request_id \notin pending_requests[c]
               /\ wb[c].has_content = FALSE
               /\ wb[c].error = "timeout")
    /\ [][ \A c \in Conns :
            ( /\ ai[c] = "wait"
              /\ ai'[c] # "wait"
              /\ futures[c][cur[c]].state # "FINISHED"
              /\ ~cancel_req[c] )
            => /\ timer[c] = "fired"
               /\ ret'[c].request_id = cur[c]
               /\ ret'[c].outcome = "returned"
               /\ ret'[c].value.error = "timeout"
               /\ cur[c] \notin pending_requests'[c]
         ]_vars
    /\ \A c \in Conns : (ai[c] = "wait") ~> (ai[c] # "wait")

\* no message was ever received, and get_whiteboard came back with the
\* timeout
C8_Witness ==
    /\ ws_log["conn_a"] = NoLog
    /\ ret["conn_a"].outcome = "returned"
    /\ ret["conn_a"].value.error = "timeout"
    /\ wb["conn_a"].error = "timeout"
    /\ ai["conn_a"] = "idle"

C33_RegisteredBeforeSend ==
    [][ \A c \in Conns :
          /\ ai'[c] \in {"send", "wait"}
                => /\ cur'[c] \in pending_requests'[c]
                   /\ futures'[c][cur'[c]] # NoFuture
          /\ \A m \in ResponseMessages :
                ( /\ ReceiveResponse(c, m)
                  /\ ai[c] \in {"send", "wait"}
                  /\ m.request_id = cur[c] )
                => ws_log'[c] # "unknown"
      ]_vars

\* the response to tool_req_1 came while send_json had not yet returned,
\* and resolved the future
C33_Witness ==
    /\ ai["conn_a"] = "send"
    /\ cur["conn_a"] = "tool_req_1"
    /\ futures["conn_a"]["tool_req_1"].state = "FINISHED"
    /\ ws_log["conn_a"] = "resolved"

\* C38 (as stated): whatever responses the client sends and whenever they
\* arrive, handling a response never ends the receive loop: no error
\* escapes process_client_response.
C38_Original ==
    [][ \A c \in Conns, m \in ResponseMessages :
          ReceiveResponse(c, m) => recv'[c] = "running"
      ]_vars

\* C40: the pending table of a connection holds at most one entry at any
\* time, and an entry is the request of the _request_from_client call in
\* progress; when that call ends, by a response, a timeout, a failed send
\* or a cancellation, its entry is not in the table any more.
C40_OnePending ==
    [][ \A c \in Conns :
          /\ Cardinality(pending_requests'[c]) <= 1
          /\ \A i \in pending_requests'[c] :
                ai'[c] \in {"send", "wait"} /\ cur'[c] = i
          /\ (cur[c] # "" /\ cur'[c] # cur[c])
                => /\ cur[c] \notin pending_requests'[c]
                   /\ ret'[c].request_id = cur[c]
                   /\ ret'[c].outcome \in {"returned", "CancelledError"}
      ]_vars

\* the second request of a connection is pending alone, the call of the
\* first having returned
C40_Witness ==
    /\ pending_requests["conn_a"] = {"tool_req_2"}
    /\ ai["conn_a"] = "wait"
    /\ ret["conn_a"].request_id = "tool_req_1"
    /\ ret["conn_a"].outcome = "returned"

\* what websocket_endpoint holds for one connection: the pending table and
\* request counter of its ToolContext, the futures in the table, and what
\* the calls of its handlers got
OfConnection(c) ==
    <<pending_requests[c], request_counter[c], futures[c], cur[c], ret[c],
      wb[c]>>

\* C28: two sessions connected at once share no pending table and no
\* ToolContext: a response received on one connection leaves the pending
\* table, the futures, the counter and the returns of the other connection
\* as they were, even when the request_id is pending on both; and no step
\* changes what two connections hold.
C28_SessionsApart ==
    [][ /\ \A c \in Conns, m \in ResponseMessages :
              ReceiveResponse(c, m)
              => \A d \in Conns \ {c} :
                     OfConnection(d)' = OfConnection(d)
        /\ \A c \in Conns :
              \A d \in Conns \ {c} :
                  OfConnection(c)' = OfConnection(c)
                  \/ OfConnection(d)' = OfConnection(d)
      ]_vars

\* both connections wait for their own tool_req_1; the response on conn_a
\* has resolved conn_a's, and conn_b's is still pending
C28_Witness ==
    /\ "tool_req_1" \in pending_requests["conn_a"]
    /\ "tool_req_1" \in pending_requests["conn_b"]
    /\ futures["conn_a"]["tool_req_1"].state = "FINISHED"
    /\ futures["conn_b"]["tool_req_1"].state = "PENDING"
    /\ ws_log["conn_a"] = "resolved"

(***************************************************************************)
(* The loop: run_cycle and start of ToolOODALoop.                          *)
(***************************************************************************)
Modes == {"active", "passive", "intervention"}

\* the tool catalog, each definition by its name
ObservationTools ==
    <<"get_audio_transcript", "get_whiteboard", "get_camera_feed",
      "get_student_profile", "get_session_status", "get_observation_mode">>

ActionTools ==
    <<"speak", "update_student_model", "send_visual_hint", "log_observation",
      "update_student_profile", "draw_on_whiteboard", "clear_visual_hint">>

ControlTools ==
    <<"wait_for_event", "set_observation_mode", "end_observation_cycle">>

\* a catalog without the control tools
AllToolsWithoutControl == ObservationTools \o ActionTools

AllTools == ObservationTools \o ActionTools \o ControlTools

\* get_handlers(): the names that have a handler
GetHandlers ==
    {"get_audio_transcript", "get_whiteboard", "get_camera_feed",
     "get_student_profile", "get_session_status", "get_observation_mode",
     "speak", "update_student_model", "update_student_profile",
     "send_visual_hint", "clear_visual_hint", "draw_on_whiteboard",
     "log_observation",
     "wait_for_event", "set_observation_mode", "end_observation_cycle"}

\* what run_cycle passes to chat_with_tools besides the messages
ChatRequest == [tools |-> AllTools, tool_handlers |-> GetHandlers]

\* handlers that await something, and those that await a client response
SuspendingTools == {"get_audio_transcript", "get_whiteboard", "speak"}
ClientRequestTools == {"get_audio_transcript", "get_whiteboard"}
\* handlers an Exception can leave (chat_with_tools catches it)
RaisingTools == {"get_audio_transcript"}

\* the tool calls of the reasoner, for the specification of the loop
LoopCalls ==
    { SetModeCall(m, NoInterval) : m \in Modes }
    \cup { SetModeCall("passive", Seconds(7)),
           SetModeCall("active", NotANumber),
           EndCall("wait", "all quiet"),
           EndCall("observe_again", "look again"),
           PlainCall("get_audio_transcript") }

\* the tool calls of the reasoner, for the specification of one cycle
CycleCalls ==
    { PlainCall("speak"),
      PlainCall("get_audio_transcript"),
      EndCall("wait", "all quiet"),
      EndCall("observe_again", "look again"),
      EndCallMalformed,
      SpeakCallMalformed }

\* a falsy response
EmptyResponse ==
    [tool_calls |-> <<>>, finish_reason |-> "<none>", content |-> FALSE,
     empty |-> TRUE]

\* the responses the reasoner may give: at most `batch` of `calls` each,
\* while the cycle and the history have room; `quiet` admits the responses
\* that neither end the cycle nor ask for anything
CycleResponses(calls, batch, quiet) ==
    LET room == IF Len(requested) < MaxCycleCalls
                THEN MaxCycleCalls - Len(requested) ELSE 0
    IN  { r \in [tool_calls : SeqsUpTo(calls, Min(batch, room)),
                 finish_reason : FinishReasons,
                 content : BOOLEAN,
                 empty : {FALSE}] :
            /\ r.content => message_history < MaxHistory
            /\ quiet \/ r.tool_calls # <<>> \/ r.content
                     \/ r.finish_reason = "stop" }
        \cup {EmptyResponse}

\* a loop guard that is off by one
CycleMayIterateOffByOne(i) == i <= CycleMaxIterations

\* `while iteration < max_iterations` of run_cycle
CycleMayIterate(i) == i < CycleMaxIterations

\* a tracking that records each name once
TrackNamesOnce(called, tool_calls) ==
    called \o SelectSeq([i \in 1..Len(tool_calls) |-> tool_calls[i].name],
                       LAMBDA n : \A j \in 1..Len(called) : called[j] # n)

\* `result.tools_called.append(tool_name)` for each tool call
TrackNames(called, tool_calls) ==
    called \o [i \in 1..Len(tool_calls) |-> tool_calls[i].name]

\* `if tool_name == "speak": result.spoke_to_student = True`
Spoke(spoke, tool_calls) ==
    spoke \/ \E i \in 1..Len(tool_calls) : tool_calls[i].name = "speak"

\* `elif tool_name == "end_observation_cycle"`: the arguments are parsed
\* and, unless that fails, final_action and reasoning are taken from them
RECURSIVE Decision(_, _)
Decision(prev, tool_calls) ==
    IF tool_calls = <<>>
    THEN prev
    ELSE LET tc == Head(tool_calls)
         IN  Decision(IF tc.name = "end_observation_cycle" /\ tc.valid
                      THEN [final_action |-> tc.next_action,
                            reasoning |-> tc.reasoning]
                      ELSE prev,
                      Tail(tool_calls))

\* a test for the end of the cycle that looks at the completion reason only
CycleShouldEndOnStopOnly(finish_reason, called) == finish_reason = "stop"

\* `if finish_reason == "stop" or "end_observation_cycle" in result.tools_called`
CycleShouldEnd(finish_reason, called) ==
    \/ finish_reason = "stop"
    \/ \E i \in 1..Len(called) : called[i] = "end_observation_cycle"

\* `if content and not tool_calls`
FinalContent(r) == r.content /\ r.tool_calls = <<>>

\* `hasattr(self.handlers, '_observation_interval')`: __init__ of
\* AIToolHandlers sets the attribute
HandlersHaveInterval == TRUE

\* the delay start() computes after a cycle
SleepInterval(action, loop_interval, handlers_interval) ==
    LET interval == IF action = "observe_again"
                    THEN Seconds(ShortInterval)
                    ELSE Seconds(loop_interval)
    IN  IF HandlersHaveInterval THEN handlers_interval ELSE interval

\* asyncio.sleep raises TypeError when the delay is no number
SleepRaises(interval) == interval.kind # "seconds"

\* a set_observation_mode that looks at the mode only
SetObservationModeIgnoringOverride(mode, interval_seconds, current) ==
    IF mode = "active" THEN Seconds(ActiveInterval)
    ELSE IF mode = "passive" THEN Seconds(PassiveInterval)
    ELSE IF mode = "intervention" THEN Seconds(InterventionInterval)
    ELSE current

\* set_observation_mode: the value of self._observation_interval after it
SetObservationMode(mode, interval_seconds, current) ==
    IF interval_seconds # NoInterval THEN interval_seconds
    ELSE IF mode = "active" THEN Seconds(ActiveInterval)
    ELSE IF mode = "passive" THEN Seconds(PassiveInterval)
    ELSE IF mode = "intervention" THEN Seconds(InterventionInterval)
    ELSE current

\* run_cycle up to its first `await self.client.chat_with_tools(...)`
BeginCycle ==
    /\ cycle_count' = cycle_count + 1
    /\ tools_called' = <<>>
    /\ spoke_to_student' = FALSE
    /\ final_action' = None
    /\ reasoning' = None
    /\ cycle_iteration' = 1
    /\ cycle_roundtrips' = 1
    /\ cycle_response' = NoCycleResponse
    /\ tc_pos' = 0
    /\ requested' = <<>>
    /\ cycle_end' = "none"
    /\ failure' = "none"
    /\ sleeping' = NoInterval
    /\ lpc' = "exchange"
    /\ offered' = <<ChatRequest>>
    /\ dispatched' = <<>>

\* run_cycle returns its result to start(), which computes the delay and
\* sleeps; a delay asyncio.sleep rejects takes start() to the back-off
Leave(reason, fail, action, handlers_interval) ==
    /\ cycle_end' = reason
    /\ failure' = fail
    /\ LET interval == SleepInterval(action, LoopInterval, handlers_interval)
       IN  /\ lpc' = IF SleepRaises(interval) THEN "backoff" ELSE "sleep"
           /\ sleeping' = IF SleepRaises(interval)
                          THEN Seconds(Cooldown) ELSE interval
    /\ UNCHANGED <<cycle_iteration, cycle_roundtrips, offered>>

\* run_cycle from `choice = response.get(...)` to the end of the body of
\* its while loop, chat_with_tools having returned the response r
ProcessResponse(r, handlers_interval, fail) ==
    LET called == TrackNames(tools_called, r.tool_calls)
        decision == Decision([final_action |-> final_action,
                              reasoning |-> reasoning], r.tool_calls)
    IN  /\ tools_called' = called
        /\ spoke_to_student' = Spoke(spoke_to_student, r.tool_calls)
        /\ final_action' = decision.final_action
        /\ reasoning' = decision.reasoning
        /\ message_history' = IF r.content THEN message_history + 1
                                           ELSE message_history
        /\ cycle_response' = NoCycleResponse
        /\ tc_pos' = 0
        /\ IF CycleShouldEnd(r.finish_reason, called)
           THEN Leave("ended", fail, decision.final_action, handlers_interval)
           ELSE IF FinalContent(r)
           THEN Leave("content", fail, decision.final_action, handlers_interval)
           ELSE IF CycleMayIterate(cycle_iteration)
           THEN /\ cycle_iteration' = cycle_iteration + 1
                /\ cycle_roundtrips' = cycle_roundtrips + 1
                /\ lpc' = "exchange"
                /\ offered' = Append(offered, ChatRequest)
                /\ failure' = fail
                /\ UNCHANGED <<sleeping, cycle_end>>
           ELSE Leave("ceiling", "ceiling", decision.final_action,
                      handlers_interval)

\* start() is entered: `self.is_running = True`, and the first cycle begins
StartBegins ==
    /\ UNCHANGED <<chatVars, bridgeVars, handlerVars, toolVars>>
    /\ lpc = "idle"
    /\ cycle_count < MaxCycles
    /\ loop_is_running' = TRUE
    /\ BeginCycle
    /\ UNCHANGED <<message_history, observation_mode, observation_interval,
                   stopped, cancelled, last_set>>

\* stop(): `self.is_running = False`
StopCalled ==
    /\ UNCHANGED <<chatVars, bridgeVars, handlerVars, toolVars>>
    /\ ~stopped
    /\ lpc \notin {"returned", "cancelled"}
    /\ loop_is_running' = FALSE
    /\ stopped' = TRUE
    /\ UNCHANGED <<lpc, cycle_count, cycle_iteration, cycle_response, tc_pos,
                   tools_called, spoke_to_student, final_action, reasoning,
                   message_history, observation_mode, observation_interval,
                   sleeping, cancelled, requested, cycle_roundtrips,
                   cycle_end, failure, last_set, offered, dispatched>>

\* the reasoner answers with r
ExchangeReturns(r) ==
    /\ UNCHANGED <<chatVars, bridgeVars, handlerVars, toolVars>>
    /\ lpc = "exchange"
    /\ requested' = requested \o r.tool_calls
    /\ IF r.empty
       \* `if not response: break`
       THEN /\ Leave("empty", "empty", final_action, observation_interval)
            /\ UNCHANGED <<cycle_response, tc_pos, tools_called,
                           spoke_to_student, final_action, reasoning,
                           message_history>>
       ELSE IF IsFinal(r)
       \* chat_with_tools returns it at once
       THEN ProcessResponse(r, observation_interval, failure)
       \* chat_with_tools runs its tool calls first
       ELSE /\ lpc' = "handlers"
            /\ cycle_response' = r
            /\ tc_pos' = 1
            /\ UNCHANGED <<cycle_iteration, tools_called, spoke_to_student,
                           final_action, reasoning, message_history, sleeping,
                           cycle_roundtrips, cycle_end, failure, offered>>
    /\ UNCHANGED <<loop_is_running, cycle_count, observation_mode,
                   observation_interval, stopped, cancelled, last_set,
                   dispatched>>

\* a failed exchange that nothing catches: the exception leaves start()
ExchangeRaisesUncaught ==
    /\ UNCHANGED <<chatVars, bridgeVars, handlerVars, toolVars>>
    /\ lpc = "exchange"
    /\ lpc' = "returned"
    /\ failure' = "exchange"
    /\ cycle_end' = "error"
    /\ UNCHANGED <<loop_is_running, cycle_count, cycle_iteration,
                   cycle_response, tc_pos, tools_called, spoke_to_student,
                   final_action, reasoning, message_history, observation_mode,
                   observation_interval, sleeping, stopped, cancelled,
                   requested, cycle_roundtrips, last_set, offered,
                   dispatched>>

\* the exchange with the reasoner fails: chat raises, and `except
\* Exception` of run_cycle logs it
ExchangeRaises ==
    /\ UNCHANGED <<chatVars, bridgeVars, handlerVars, toolVars>>
    /\ lpc = "exchange"
    /\ Leave("error", "exchange", final_action, observation_interval)
    /\ UNCHANGED <<loop_is_running, cycle_count, cycle_response, tc_pos,
                   tools_called, spoke_to_student, final_action, reasoning,
                   message_history, observation_mode, observation_interval,
                   stopped, cancelled, requested, last_set, dispatched>>

\* the position in `requested` of the tool call at tc_pos
CallIndex == Len(requested) - Len(cycle_response.tool_calls) + tc_pos

\* a dispatch that calls the handler a second time
DispatchTwice(done, index, valid) ==
    IF valid THEN done \o <<index, index>> ELSE done

\* `result = await tool_handlers[tool_name](**arguments)`, reached when
\* json.loads accepted the arguments
Dispatch(done, index, valid) ==
    IF valid THEN Append(done, index) ELSE done

\* chat_with_tools is through with the tool call at tc_pos: its arguments
\* did not parse, or its handler returned, or its handler raised an
\* Exception; after the last tool call chat_with_tools returns the
\* response (its max_iterations is 1) and run_cycle goes on
HandlerEnds(raises) ==
    LET call == cycle_response.tool_calls[tc_pos]
        ran == call.valid /\ ~raises
        sets == ran /\ call.name = "set_observation_mode"
        handlers_interval ==
            IF sets
            THEN SetObservationMode(call.mode, call.interval_seconds,
                                    observation_interval)
            ELSE observation_interval
        fail == IF raises THEN "handler" ELSE failure
    IN  /\ dispatched' = Dispatch(dispatched, CallIndex, call.valid)
        /\ observation_interval' = handlers_interval
        /\ observation_mode' = IF sets THEN call.mode ELSE observation_mode
        /\ last_set' = IF sets
                       THEN [mode |-> call.mode,
                             interval_seconds |-> call.interval_seconds]
                       ELSE last_set
        /\ IF tc_pos < Len(cycle_response.tool_calls)
           THEN /\ tc_pos' = tc_pos + 1
                /\ failure' = fail
                /\ UNCHANGED <<lpc, cycle_iteration, cycle_response,
                               tools_called, spoke_to_student, final_action,
                               reasoning, message_history, sleeping,
                               cycle_roundtrips, cycle_end, offered>>
           ELSE ProcessResponse(cycle_response, handlers_interval, fail)
        /\ UNCHANGED <<loop_is_running, cycle_count, stopped, requested>>

HandlerStep ==
    /\ UNCHANGED <<chatVars, bridgeVars, handlerVars, toolVars>>
    /\ lpc = "handlers"
    /\ LET call == cycle_response.tool_calls[tc_pos]
       IN  \E raises \in IF call.valid /\ call.name \in RaisingTools
                         THEN BOOLEAN ELSE {FALSE} :
                HandlerEnds(raises)
    /\ UNCHANGED cancelled

\* how a cancellation can end for the task suspended in the handler of
\* `call`: in a wait_for on a client response it depends on the future
CancelOutcomes(call) ==
    IF call.name \in ClientRequestTools
    THEN UNION { WaitOutcomes(f, "armed", TRUE) :
                    f \in {PendingFuture} \cup { SetResult(p) : p \in Payloads } }
    ELSE {"cancelled"}

\* CancelledError is thrown into the task of start() where it is suspended
CancelDelivered ==
    /\ UNCHANGED <<chatVars, bridgeVars, handlerVars, toolVars>>
    /\ ~cancelled
    /\ cancelled' = TRUE
    /\ \/ /\ lpc \in {"exchange", "sleep"}
          \* `except asyncio.CancelledError: break`
          /\ lpc' = "returned"
          /\ sleeping' = NoInterval
          /\ UNCHANGED <<cycle_iteration, cycle_response, tc_pos, tools_called,
                         spoke_to_student, final_action, reasoning,
                         message_history, observation_mode,
                         observation_interval, cycle_roundtrips, cycle_end,
                         failure, last_set, offered, dispatched>>
       \/ /\ lpc = "backoff"
          \* the sleep of the except clause is outside the try statement
          /\ lpc' = "cancelled"
          /\ sleeping' = NoInterval
          /\ UNCHANGED <<cycle_iteration, cycle_response, tc_pos, tools_called,
                         spoke_to_student, final_action, reasoning,
                         message_history, observation_mode,
                         observation_interval, cycle_roundtrips, cycle_end,
                         failure, last_set, offered, dispatched>>
       \/ /\ lpc = "handlers"
          /\ LET call == cycle_response.tool_calls[tc_pos]
             IN  /\ call.valid
                 /\ call.name \in SuspendingTools
                 /\ \E o \in CancelOutcomes(call) :
                      \/ /\ o = "cancelled"
                         /\ lpc' = "returned"
                         /\ dispatched' = Dispatch(dispatched, CallIndex, TRUE)
                         /\ UNCHANGED <<cycle_iteration, cycle_response, tc_pos,
                                        tools_called, spoke_to_student,
                                        final_action, reasoning,
                                        message_history, observation_mode,
                                        observation_interval, sleeping,
                                        cycle_roundtrips, cycle_end, failure,
                                        last_set, offered>>
                      \* wait_for returns the result and the cancellation
                      \* is gone: the handler goes on
                      \/ /\ o = "result"
                         /\ \E raises \in IF call.name \in RaisingTools
                                          THEN BOOLEAN ELSE {FALSE} :
                                HandlerEnds(raises)
    /\ UNCHANGED <<loop_is_running, cycle_count, stopped, requested>>

\* `while self.is_running` after a sleep
WhileHead ==
    IF loop_is_running
    THEN /\ cycle_count < MaxCycles
         /\ BeginCycle
    ELSE /\ lpc' = "returned"
         /\ sleeping' = NoInterval
         /\ UNCHANGED <<cycle_count, cycle_iteration, cycle_response, tc_pos,
                        tools_called, spoke_to_student, final_action,
                        reasoning, requested, cycle_roundtrips, cycle_end,
                        failure, offered, dispatched>>

\* the inter-cycle sleep is over
SleepEnds ==
    /\ UNCHANGED <<chatVars, bridgeVars, handlerVars, toolVars>>
    /\ lpc = "sleep"
    /\ WhileHead
    /\ UNCHANGED <<loop_is_running, message_history, observation_mode,
                   observation_interval, stopped, cancelled, last_set>>

\* the back-off sleep is over
BackoffEnds ==
    /\ UNCHANGED <<chatVars, bridgeVars, handlerVars, toolVars>>
    /\ lpc = "backoff"
    /\ WhileHead
    /\ UNCHANGED <<loop_is_running, message_history, observation_mode,
                   observation_interval, stopped, cancelled, last_set>>

LoopNext(calls, batch, quiet) ==
    \/ StartBegins
    \/ StopCalled
    \/ \E r \in CycleResponses(calls, batch, quiet) : ExchangeReturns(r)
    \/ ExchangeRaises
    \/ HandlerStep
    \/ CancelDelivered
    \/ SleepEnds
    \/ BackoffEnds

InitLoop ==
    /\ ChatInit
    /\ max_iterations = 1
    /\ BridgeInit({})
    /\ HandlersInit
    /\ ToolsInit
    /\ LoopInit

(***************************************************************************)
(* SpecLoop: start() under stop() and cancellation, the reasoner asking    *)
(* for one tool call at a time and ending the cycle when it asks for none. *)
(***************************************************************************)
SpecLoopNext == LoopNext(LoopCalls, 1, FALSE)

SpecLoop == InitLoop /\ [][SpecLoopNext]_vars

\* the event loop ends every sleep, and every exchange and every handler
\* comes to an end (each has its timeout)
LoopFairness ==
    /\ WF_vars(StartBegins)
    /\ WF_vars(\E r \in CycleResponses(LoopCalls, 1, FALSE) : ExchangeReturns(r))
    /\ WF_vars(HandlerStep)
    /\ WF_vars(SleepEnds)
    /\ WF_vars(BackoffEnds)

FairLoop == SpecLoop /\ LoopFairness

(***************************************************************************)
(* SpecCycle: the cycles of a loop that is neither stopped nor cancelled,  *)
(* the reasoner asking for several tool calls at a time.                   *)
(***************************************************************************)
SpecCycleNext ==
    \/ StartBegins
    \/ \E r \in CycleResponses(CycleCalls, MaxCalls, TRUE) : ExchangeReturns(r)
    \/ ExchangeRaises
    \/ HandlerStep
    \/ SleepEnds

SpecCycle == InitLoop /\ [][SpecCycleNext]_vars

\* the event loop ends every sleep
CycleFairness == WF_vars(SleepEnds)

FairCycle == SpecCycle /\ CycleFairness

(***************************************************************************)
(* Properties of the loop.                                                 *)
(***************************************************************************)

\* C11 as stated: once stop() has been called the loop begins no further
\* cycle, wherever it is when stop() is called, the time before its first
\* cycle included.
C11_Original == [][ stopped => cycle_count' = cycle_count ]_vars

\* C12 as stated: a cancellation delivered at a suspension point of the
\* running loop ends start().
C12_Original == cancelled => lpc \in {"returned", "cancelled"}

\* C13: in a loop that is neither stopped nor cancelled start() does not
\* return, whatever fails in a cycle, and after a cycle in which something
\* failed the next cycle does begin.
C13_FailureKeepsLoop ==
    /\ [](lpc \notin {"returned", "cancelled"})
    /\ \A n \in 1..(MaxCycles - 1) :
          (cycle_count = n /\ cycle_end # "none" /\ failure # "none")
          ~> (cycle_count = n + 1)

\* the second cycle of the loop is over, a handler having raised in it,
\* and start() sleeps before the next
C13_Witness ==
    /\ cycle_count = 2
    /\ cycle_end = "ended"
    /\ failure = "handler"
    /\ lpc = "sleep"

\* C14 as stated: after a cycle in which an error occurred the loop waits
\* the fixed cooldown, whatever interval is configured.
C14_Original ==
    (lpc \in {"sleep", "backoff"} /\ failure # "none")
    => sleeping = Seconds(Cooldown)

\* C15 as stated: after a cycle that ended with final_action
\* "observe_again" the loop sleeps the short interval, and after any other
\* the configured interval.
C15_Original ==
    lpc = "sleep"
    => sleeping = IF final_action = "observe_again"
                  THEN Seconds(ShortInterval)
                  ELSE observation_interval

\* C16: once set_observation_mode has run, every inter-cycle sleep lasts
\* the interval_seconds of the last such call when it gave one, and
\* otherwise the default of its mode: 3 for active, 10 for passive, 1 for
\* intervention.
C16_ModeSetsInterval ==
    (lpc = "sleep" /\ last_set # NoSet)
    => /\ last_set.interval_seconds.kind = "seconds"
          => sleeping = last_set.interval_seconds
       /\ last_set.interval_seconds.kind = "none"
          => /\ last_set.mode = "active" => sleeping = Seconds(3)
             /\ last_set.mode = "passive" => sleeping = Seconds(10)
             /\ last_set.mode = "intervention" => sleeping = Seconds(1)

\* the loop sleeps 7 seconds after its second cycle, set_observation_mode
\* having asked for 7 in passive mode in the first
C16_Witness ==
    /\ lpc = "sleep"
    /\ cycle_count = 2
    /\ requested = <<>>
    /\ last_set = [mode |-> "passive", interval_seconds |-> Seconds(7)]
    /\ sleeping = Seconds(7)

\* C17: a cycle makes at most 10 reasoner round-trips and then returns to
\* start(); a cycle the ceiling has ended has no final_action.
C17_CycleCeiling ==
    /\ cycle_roundtrips <= 10
    /\ cycle_end = "ceiling"
       => /\ cycle_roundtrips = 10
          /\ final_action = None
          /\ lpc = "sleep"

\* the ceiling ended a cycle in which the reasoner had asked for tools
C17_Witness ==
    /\ cycle_end = "ceiling"
    /\ cycle_roundtrips = CycleMaxIterations
    /\ Len(tools_called) = MaxCycleCalls

\* C18: when a cycle is over, tools_called holds the names of the tool
\* calls the reasoner requested in it, in order and with duplicates;
\* spoke_to_student tells whether "speak" is among them; final_action and
\* reasoning are the arguments of the (last) end_observation_cycle whose
\* arguments parse, and None when there is none.
C18_CycleResult ==
    cycle_end # "none"
    => /\ Len(tools_called) = Len(requested)
       /\ \A i \in 1..Len(requested) : tools_called[i] = requested[i].name
       /\ spoke_to_student
          <=> \E i \in 1..Len(requested) : requested[i].name = "speak"
       /\ LET ends == { i \in 1..Len(requested) :
                           /\ requested[i].name = "end_observation_cycle"
                           /\ requested[i].valid }
          IN  IF ends = {}
              THEN final_action = None /\ reasoning = None
              ELSE \E i \in ends :
                      /\ \A j \in ends : j <= i
                      /\ final_action = requested[i].next_action
                      /\ reasoning = requested[i].reasoning

\* the reasoner asked for speak and then for end_observation_cycle
C18_Witness ==
    /\ cycle_end = "ended"
    /\ tools_called = <<"speak", "end_observation_cycle">>
    /\ spoke_to_student
    /\ final_action = "wait"
    /\ reasoning = "all quiet"

\* C19: once a response of the cycle has requested end_observation_cycle,
\* the cycle makes no further reasoner round-trip.
C19_EndToolEndsCycle ==
    [][ ( /\ \E i \in 1..Len(requested) :
                requested[i].name = "end_observation_cycle"
          /\ cycle_count' = cycle_count )
        => cycle_roundtrips' = cycle_roundtrips ]_vars

\* the second response of a cycle asked for end_observation_cycle, and the
\* cycle is over after two round-trips
C19_Witness ==
    /\ lpc = "sleep"
    /\ cycle_end = "ended"
    /\ tools_called = <<"get_audio_transcript", "end_observation_cycle">>
    /\ cycle_roundtrips = 2

\* the names of a catalog
ToolNames(tools) == { tools[k] : k \in DOMAIN tools }

\* C30: every request run_cycle makes to the reasoner is recorded with its
\* catalog; each carries the observation, action and control tools, all of
\* them and nothing else, the same at every request of the cycle; no name
\* occurs twice in the catalog; every name of the catalog has a handler
\* among those passed with it.
C30_FullCatalog ==
    /\ Len(offered) = (IF lpc = "idle" THEN 0 ELSE cycle_roundtrips)
    /\ \A i \in DOMAIN offered :
          /\ offered[i].tools = ObservationTools \o ActionTools \o ControlTools
          /\ offered[i].tools = offered[1].tools
          /\ Cardinality(ToolNames(offered[i].tools)) = Len(offered[i].tools)
          /\ ToolNames(offered[i].tools) \subseteq offered[i].tool_handlers

\* the second request of a cycle is with the reasoner, after a response
\* whose tool calls have run
C30_Witness ==
    /\ lpc = "exchange"
    /\ Len(offered) = 2
    /\ Len(requested) > 0
    /\ "set_observation_mode" \in ToolNames(offered[2].tools)

\* C37 as stated: the result of a cycle reports spoke_to_student only if
\* the speak handler was executed in that cycle; a speak call that was
\* requested but not dispatched does not set it.
C37_Original ==
    spoke_to_student
    => \E i \in 1..Len(dispatched) : requested[dispatched[i]].name = "speak"

\* C39: each tool call the reasoner requested in a cycle is handed to its
\* handler at most once, and in the order of the requests, although
\* run_cycle and chat_with_tools both iterate.
C39_DispatchedOnce ==
    /\ \A i \in 1..Len(dispatched) : dispatched[i] \in 1..Len(requested)
    /\ \A i \in 1..Len(dispatched) : \A j \in 1..Len(dispatched) :
          i < j => dispatched[i] < dispatched[j]

\* run_cycle is in its second round-trip or later, and chat_with_tools has
\* run the tool calls of two responses
C39_Witness ==
    /\ cycle_roundtrips >= 3
    /\ Len(requested) = 2
    /\ dispatched = <<1, 2>>

(***************************************************************************)
(* The tool handlers, each as the outcome of one call: what the handler    *)
(* hands to chat_with_tools, given the answer of the client and the state  *)
(* of the collaborators in the ToolContext.                                *)
(***************************************************************************)

Result == [kind |-> "result", error |-> ""]
StructuredError(e) == [kind |-> "error", error |-> e]
HandlerRaised(e) == [kind |-> "raised", error |-> e]

\* the fields of a PedagogyProfile, and those get_student_profile reads
PedagogyProfileFields ==
    {"patience_level", "preferred_learning_style", "preferred_analogies",
     "response_to_correction", "optimal_intervention_delay"}

ProfileFieldsRead ==
    {"preferred_learning_style", "patience_level",
     "optimal_intervention_delay", "hint_preference",
     "encouragement_frequency"}

RegisteredHandlers ==
    {"get_audio_transcript", "get_whiteboard", "get_student_profile",
     "get_session_status", "speak", "update_student_model", "wait_for_event"}

\* what the client does with a request: there is no websocket, the send
\* fails, no answer comes in time, or it answers with data that decodes
\* ("data"), with data of incorrect base64 padding ("undecodable"), or
\* without data ("nothing")
ClientAnswers ==
    {"no_websocket", "send_fails", "timeout", "data", "undecodable", "nothing"}

Collaborator == {"ok", "fails", "absent"}

HandlerCalls ==
    [ name : RegisteredHandlers,
      client : ClientAnswers,
      whisper : Collaborator,
      vision : Collaborator,
      repository : Collaborator,
      student_model : {"loaded", "absent"},
      session_state : {"present", "absent"} ]

RequestFromClient(client) ==
    IF client = "no_websocket" THEN StructuredError("No WebSocket connection")
    ELSE IF client = "send_fails" THEN StructuredError("send failed")
    ELSE IF client = "timeout" THEN StructuredError("timeout")
    ELSE Result

\* the read of an attribute of ctx.session_state, outside any try
GetSessionStatus(call) ==
    IF call.session_state = "absent"
    THEN HandlerRaised("AttributeError")
    ELSE Result

GetAudioTranscript(call) ==
    LET answer == RequestFromClient(call.client)
    IN  IF answer.kind = "error" THEN StructuredError(answer.error)
        ELSE IF call.client = "undecodable" THEN HandlerRaised("binascii.Error")
        ELSE IF call.client = "data"
        THEN IF call.whisper = "absent" THEN StructuredError("AttributeError")
             ELSE IF call.whisper = "fails"
             THEN StructuredError("transcription failed")
             ELSE IF call.session_state = "absent"
             THEN StructuredError("AttributeError")
             ELSE Result
        ELSE IF call.session_state = "absent" THEN HandlerRaised("AttributeError")
        ELSE Result

GetWhiteboardHandler(call) ==
    LET answer == RequestFromClient(call.client)
    IN  IF answer.kind = "error" THEN StructuredError(answer.error)
        ELSE IF call.client = "nothing" \/ call.vision = "absent" THEN Result
        ELSE IF call.client = "undecodable"
        THEN StructuredError("analysis_error")
        ELSE IF call.vision = "fails" THEN StructuredError("analysis_error")
        ELSE Result

GetStudentProfile(call) ==
    IF call.student_model = "absent"
    THEN StructuredError("No student model loaded")
    ELSE IF ProfileFieldsRead \subseteq PedagogyProfileFields THEN Result
    ELSE HandlerRaised("AttributeError")

\* _send_to_client swallows a failed send; the write to ctx.session_state
\* follows it
Speak(call) ==
    IF call.session_state = "absent"
    THEN HandlerRaised("AttributeError")
    ELSE Result

\* called with a note, so that there is something to save
UpdateStudentModel(call) ==
    IF call.student_model = "absent"
    THEN StructuredError("No student model loaded")
    ELSE IF call.repository = "fails" THEN StructuredError("save_error")
    ELSE Result

\* called with events = ["silence"] and a positive timeout
WaitForEvent(call) == GetSessionStatus(call)

\* get_handlers: the handler registered under the name of the call
Handle(call) ==
    CASE call.name = "get_audio_transcript" -> GetAudioTranscript(call)
      [] call.name = "get_whiteboard" -> GetWhiteboardHandler(call)
      [] call.name = "get_student_profile" -> GetStudentProfile(call)
      [] call.name = "get_session_status" -> GetSessionStatus(call)
      [] call.name = "speak" -> Speak(call)
      [] call.name = "update_student_model" -> UpdateStudentModel(call)
      [] call.name = "wait_for_event" -> WaitForEvent(call)

\* the handler of hcall runs to its end
HandlerRuns ==
    /\ hout = NoOutcome
    /\ hout' = Handle(hcall)
    /\ UNCHANGED <<hcall, chatVars, bridgeVars, loopVars, toolVars>>

InitHandlers ==
    /\ ChatInit
    /\ BridgeInit({})
    /\ LoopInit
    /\ hcall \in HandlerCalls
    /\ hout = NoOutcome
    /\ ToolsInit

SpecHandlers == InitHandlers /\ [][HandlerRuns]_vars

\* C20 as stated: no handler raises, whatever the client answers and
\* whichever collaborator is absent or fails.
C20_Original == hout.kind # "raised"

(***************************************************************************)
(* SpecModes: the reasoner calls, one after the other, the handlers that   *)
(* read or write the observation mode, and handlers that do not.           *)
(***************************************************************************)
MaxToolCalls == 3

\* the enum of the tone of speak and of the next_action of
\* end_observation_cycle in the tool catalog
Tones == {"encouraging", "neutral", "questioning", "excited"}
NextActions == {"wait", "speak", "observe_again"}

\* values the reasoner may send that no enum lists
UndeclaredMode == "turbo"
UndeclaredTone == "sarcastic"
UndeclaredAction == "dance"

\* what the loop has that the handlers of SpecModes never touch
loopAtRest ==
    <<lpc, loop_is_running, cycle_count, cycle_iteration, cycle_response,
      tc_pos, tools_called, spoke_to_student, final_action, reasoning,
      message_history, sleeping, stopped, cancelled, requested,
      cycle_roundtrips, cycle_end, failure, offered, dispatched>>

\* a result mapping that carries a structured error
HasError(r) == "error" \in DOMAIN r

\* the handler of `call` has returned `r`
Serve(call, r) ==
    /\ tclock < MaxToolCalls
    /\ tclock' = tclock + 1
    /\ tcall' = call
    /\ tresult' = r
    /\ UNCHANGED <<chatVars, bridgeVars, handlerVars, loopAtRest, waitVars,
                   serverVars, cognitiveVars>>

SetObservationModeCalled(mode, interval_seconds) ==
    LET interval == SetObservationMode(mode, interval_seconds,
                                       observation_interval)
    IN  /\ Serve([name |-> "set_observation_mode", mode |-> mode,
                  interval_seconds |-> interval_seconds],
                 [mode |-> mode, interval_seconds |-> interval])
        /\ observation_mode' = mode
        /\ observation_interval' = interval
        /\ last_set' = [mode |-> mode, interval_seconds |-> interval_seconds]
        /\ got' = NoGot
        /\ UNCHANGED <<last_intervention_time, to_client, audioVars,
                       profileVars>>

\* a get_observation_mode that puts the handlers back into active mode
GetObservationModeResetting ==
    LET r == [mode |-> observation_mode,
              interval_seconds |-> observation_interval]
    IN  /\ Serve([name |-> "get_observation_mode"], r)
        /\ got' = [result |-> r, times |-> got.times + 1]
        /\ observation_mode' = "active"
        /\ UNCHANGED <<observation_interval, last_set,
                       last_intervention_time, to_client, audioVars,
                       profileVars>>

GetObservationModeCalled ==
    LET r == [mode |-> observation_mode,
              interval_seconds |-> observation_interval]
    IN  /\ Serve([name |-> "get_observation_mode"], r)
        /\ got' = [result |-> r, times |-> got.times + 1]
        /\ UNCHANGED <<observation_mode, observation_interval, last_set,
                       last_intervention_time, to_client, audioVars,
                       profileVars>>

SpeakCalled(tone) ==
    /\ Serve([name |-> "speak", tone |-> tone],
             [spoken |-> TRUE, tone |-> tone])
    /\ to_client' = Append(to_client, [type |-> "ai_response", tone |-> tone])
    /\ last_intervention_time' = tclock'
    /\ UNCHANGED <<observation_mode, observation_interval, last_set, got,
                   audioVars, profileVars>>

EndObservationCycleCalled(next_action) ==
    /\ Serve([name |-> "end_observation_cycle", next_action |-> next_action],
             [cycle_ended |-> TRUE, next_action |-> next_action])
    /\ UNCHANGED <<observation_mode, observation_interval, last_set, got,
                   last_intervention_time, to_client, audioVars, profileVars>>

ModesNext ==
    \/ \E mode \in Modes \cup {UndeclaredMode},
          interval_seconds \in {NoInterval, Seconds(7)} :
            SetObservationModeCalled(mode, interval_seconds)
    \/ GetObservationModeCalled
    \/ \E tone \in {"neutral", "excited", UndeclaredTone} : SpeakCalled(tone)
    \/ \E next_action \in {"wait", "observe_again", UndeclaredAction} :
            EndObservationCycleCalled(next_action)

InitModes ==
    /\ ChatInit
    /\ max_iterations = 1
    /\ BridgeInit({})
    /\ HandlersInit
    /\ ToolsInit
    /\ LoopInit

SpecModes == InitModes /\ [][ModesNext]_vars

\* the call served has an argument outside the enum its parameter declares
OutsideEnum(call) ==
    \/ call.name = "set_observation_mode" /\ call.mode \notin Modes
    \/ call.name = "speak" /\ call.tone \notin Tones
    \/ call.name = "end_observation_cycle"
       /\ call.next_action \notin NextActions

\* C21 as stated: a handler called with a value outside the enum of its
\* parameter returns a structured error.
C21_Original == OutsideEnum(tcall) => HasError(tresult)

\* C27: get_observation_mode changes nothing the handlers keep, and it
\* returns what the last get_observation_mode returned when no
\* set_observation_mode has run since, whatever else has.
C27_GetObservationModeReads ==
    [][ (tclock' # tclock /\ tcall'.name = "get_observation_mode")
        => /\ observation_mode' = observation_mode
           /\ observation_interval' = observation_interval
           /\ last_intervention_time' = last_intervention_time
           /\ to_client' = to_client
           /\ got.times > 0 => tresult' = got.result ]_vars

\* get_observation_mode has returned for the second time since the last
\* set_observation_mode, speak having run just before it
C27_Witness ==
    /\ tcall.name = "get_observation_mode"
    /\ got.times = 2
    /\ tresult = got.result
    /\ last_intervention_time = tclock - 1

(***************************************************************************)
(* SpecWait: one call of wait_for_event.  Times are in half seconds.  The  *)
(* client answers the status and whiteboard requests with mappings, and    *)
(* ctx.session_state is there.                                             *)
(***************************************************************************)
MaxTimeout == 3
MaxMinWait == 2

\* poll_interval = 0.5, in half seconds
PollInterval == 1

\* the items of the events enum, and the event lists the reasoner sends
Events == {"speech", "silence", "whiteboard_change", "any_activity"}

EventLists ==
    { {"speech"}, {"silence", "whiteboard_change"}, {"any_activity"},
      {"earthquake"} }

\* how much later than asked a sleep may end, and how long the requests of
\* one poll may take
Lateness == {0, 1}

\* a sleep of min_wait_seconds that ends at once
AfterMinWaitSkipped(now, min_wait_seconds, late) == now + late

\* the clock when `await asyncio.sleep(min_wait_seconds)` is over
AfterMinWait(now, min_wait_seconds, late) == now + min_wait_seconds + late

\* a poll loop that does not sleep
AfterPollSleepSkipped(now, late) == now + late

\* the clock when `await asyncio.sleep(poll_interval)` is over
AfterPollSleep(now, late) == now + PollInterval + late

\* the body of the while: the first requested event, in the order of the
\* code, whose condition the poll found to hold
TriggeredEvent(events, holds) ==
    IF "speech" \in events /\ "speech" \in holds THEN "speech"
    ELSE IF "whiteboard_change" \in events /\ "whiteboard_change" \in holds
    THEN "whiteboard_change"
    ELSE IF "silence" \in events /\ "silence" \in holds THEN "silence"
    ELSE IF "any_activity" \in events /\ "any_activity" \in holds
    THEN "any_activity"
    ELSE None

\* the mapping wait_for_event returns
WaitResult(triggered_event, elapsed) ==
    [triggered |-> triggered_event # None,
     event |-> triggered_event,
     timeout_reached |-> triggered_event = None,
     wait_duration |-> elapsed]

waitRest ==
    <<chatVars, bridgeVars, loopVars, handlerVars, tclock, modeVars,
      audioVars, profileVars, serverVars, cognitiveVars>>

WaitForEventCalled(events, timeout_seconds, min_wait_seconds) ==
    /\ wpc = "idle"
    /\ tcall' = [name |-> "wait_for_event", events |-> events,
                 timeout_seconds |-> timeout_seconds,
                 min_wait_seconds |-> min_wait_seconds]
    /\ wstart' = wnow
    /\ wpc' = IF min_wait_seconds > 0 THEN "min_wait" ELSE "head"
    /\ UNCHANGED <<tresult, wnow, wpolls, last_poll, waitRest>>

MinWaitEnds ==
    /\ wpc = "min_wait"
    /\ \E late \in Lateness :
          wnow' = AfterMinWait(wnow, tcall.min_wait_seconds, late)
    /\ wpc' = "head"
    /\ UNCHANGED <<tcall, tresult, wstart, wpolls, last_poll, waitRest>>

\* `while (time.time() - start_time) < timeout_seconds`, and the return
\* that follows the loop
WaitHead ==
    /\ wpc = "head"
    /\ IF wnow - wstart < tcall.timeout_seconds
       THEN /\ wpc' = "poll"
            /\ UNCHANGED tresult
       ELSE /\ wpc' = "returned"
            /\ tresult' = WaitResult(None, wnow - wstart)
    /\ UNCHANGED <<tcall, wnow, wstart, wpolls, last_poll, waitRest>>

\* one pass through the checks of the while body
Poll(holds, took) ==
    /\ wpc = "poll"
    /\ wnow' = wnow + took
    /\ wpolls' = wpolls + 1
    /\ last_poll' = wnow'
    /\ LET triggered_event == TriggeredEvent(tcall.events, holds)
       IN  IF triggered_event # None
           THEN /\ wpc' = "returned"
                /\ tresult' = WaitResult(triggered_event, wnow' - wstart)
           ELSE /\ wpc' = "poll_sleep"
                /\ UNCHANGED tresult
    /\ UNCHANGED <<tcall, wstart, waitRest>>

PollSleepEnds ==
    /\ wpc = "poll_sleep"
    /\ \E late \in Lateness : wnow' = AfterPollSleep(wnow, late)
    /\ wpc' = "head"
    /\ UNCHANGED <<tcall, tresult, wstart, wpolls, last_poll, waitRest>>

WaitNext ==
    \/ \E events \in EventLists, timeout_seconds \in 0..MaxTimeout,
          min_wait_seconds \in 0..MaxMinWait :
            WaitForEventCalled(events, timeout_seconds, min_wait_seconds)
    \/ MinWaitEnds
    \/ WaitHead
    \/ \E holds \in SUBSET Events, took \in Lateness : Poll(holds, took)
    \/ PollSleepEnds

InitWait ==
    /\ ChatInit
    /\ max_iterations = 1
    /\ BridgeInit({})
    /\ HandlersInit
    /\ ToolsInit
    /\ LoopInit

SpecWait == InitWait /\ [][WaitNext]_vars

\* the event loop wakes the handler from every sleep and request
WaitFairness ==
    /\ WF_vars(MinWaitEnds)
    /\ WF_vars(WaitHead)
    /\ WF_vars(\E holds \in SUBSET Events, took \in Lateness :
                    Poll(holds, took))
    /\ WF_vars(PollSleepEnds)

FairWait == SpecWait /\ WaitFairness

\* C22: wait_for_event does not return before min_wait_seconds have passed
\* since it was called, whatever the first poll finds.
C22_MinWait ==
    wpc = "returned" => wnow - wstart >= tcall.min_wait_seconds

\* wait_for_event returned after exactly its minimum wait, its first poll
\* having found the event
C22_Witness ==
    /\ wpc = "returned"
    /\ tcall.min_wait_seconds = MaxMinWait
    /\ tresult.triggered
    /\ wpolls = 1
    /\ wnow - wstart = MaxMinWait

\* C23: a call of wait_for_event returns; what it returns has either
\* triggered true and one of the requested events, or timeout_reached true
\* with timeout_seconds elapsed, never both; a poll that is not the first
\* starts at least the poll interval after the poll before it ended.
C23_WaitReturns ==
    /\ (wpc # "idle") ~> (wpc = "returned")
    /\ [](wpc = "returned"
          => /\ tresult.triggered # tresult.timeout_reached
             /\ tresult.triggered => tresult.event \in tcall.events
             /\ tresult.timeout_reached
                => /\ tresult.event = None
                   /\ wnow - wstart >= tcall.timeout_seconds)
    /\ [][ (wpc = "head" /\ wpc' = "poll" /\ wpolls > 0)
           => wnow >= last_poll + 1 ]_vars

\* wait_for_event returned with timeout_reached after two polls
C23_Witness ==
    /\ wpc = "returned"
    /\ tresult.timeout_reached
    /\ wpolls = 2

(***************************************************************************)
(* SpecAudio: calls of get_audio_transcript, one after the other.  The     *)
(* audio the client sends is base64 as the client encodes it.              *)
(***************************************************************************)
MinAudioMs == 200

\* what _request_from_client returns for the audio request: an error
\* mapping, or the answer of the client
AudioAnswers ==
    [ error : {"No WebSocket connection", "timeout", "send failed"},
      has_speech : {FALSE}, data : {""}, duration_ms : {0} ]
    \cup
    [ error : {None}, has_speech : BOOLEAN, data : {"", "audio"},
      duration_ms : {0, 199, 200} ]

\* what whisper_stt.transcribe gives: a text, no text, or an exception
Heard == {"hello", "", "fails"}

\* a handler that transcribes audio of any length
LongEnoughAlways(duration_ms) == TRUE

\* `if duration_ms < 200: return`
LongEnough(duration_ms) == ~(duration_ms < MinAudioMs)

\* session_state.get_recent_transcripts(seconds) at time now
RecentTranscripts(buffer, seconds, now) ==
    SelectSeq(buffer, LAMBDA entry : entry.timestamp + seconds > now)

GetAudioTranscriptCalled(seconds, answer, heard) ==
    LET payload == answer.has_speech /\ answer.data # ""
        transcribes == /\ answer.error = None
                       /\ payload
                       /\ LongEnough(answer.duration_ms)
        text == IF transcribes /\ heard # "fails" THEN heard ELSE ""
        timestamp == tclock + 1
        recent == RecentTranscripts(transcripts, seconds, timestamp)
        r == IF answer.error # None
             THEN [transcripts |-> <<>>, has_speech |-> FALSE,
                   error |-> answer.error]
             ELSE IF payload /\ ~LongEnough(answer.duration_ms)
             THEN [transcripts |-> <<>>, has_speech |-> FALSE,
                   duration_ms |-> answer.duration_ms]
             ELSE IF transcribes /\ heard = "fails"
             THEN [transcripts |-> <<>>, has_speech |-> FALSE,
                   error |-> "transcription failed"]
             ELSE IF text # ""
             THEN [transcripts |-> <<[text |-> text,
                                      timestamp |-> timestamp]>>,
                   has_speech |-> TRUE,
                   duration_ms |-> answer.duration_ms]
             ELSE [transcripts |-> recent, has_speech |-> recent # <<>>,
                   total_in_buffer |-> Len(recent)]
    IN  /\ Serve([name |-> "get_audio_transcript", seconds |-> seconds,
                  answer |-> answer], r)
        /\ transcribed' = IF transcribes THEN transcribed + 1 ELSE transcribed
        /\ transcripts' = IF text # ""
                          THEN Append(transcripts,
                                      [text |-> text, timestamp |-> timestamp])
                          ELSE transcripts
        /\ last_speech_time' = IF text # "" THEN timestamp
                                            ELSE last_speech_time
        /\ UNCHANGED <<observation_mode, observation_interval, last_set,
                       modeVars, profileVars>>

AudioNext ==
    \E seconds \in {0, 30}, answer \in AudioAnswers, heard \in Heard :
        GetAudioTranscriptCalled(seconds, answer, heard)

InitAudio ==
    /\ ChatInit
    /\ max_iterations = 1
    /\ BridgeInit({})
    /\ HandlersInit
    /\ ToolsInit
    /\ LoopInit

SpecAudio == InitAudio /\ [][AudioNext]_vars

LearningStyles == {"visual", "verbal", "kinesthetic"}
DataModelsNames == {"LearningStyle", "PatienceLevel", "PedagogyProfile"}

\* `from ..models.data_models import <name>` raises ImportError
ImportFails(name) == name \notin DataModelsNames

\* the fields an assignment to a PedagogyProfile may name
FieldDeclared(name) == name \in PedagogyProfileFields

\* max(lo, min(hi, x))
Clamp(x, lo, hi) ==
    LET low == IF hi < x THEN hi ELSE x
    IN  IF lo > low THEN lo ELSE low

ProfileCalls ==
    [ learning_style : {None, "visual", "auditory", "bogus"},
      patience_level : {NotGiven, Given(0 - 3), Given(5), Given(15)},
      optimal_intervention_delay : {NotGiven, Given(0 - 10)},
      hint_preference : {None, "minimal", "bogus"},
      encouragement_frequency : {NotGiven, Given(15)} ]

\* the profile when the handler is through with learning_style,
\* patience_level and optimal_intervention_delay
ProfileApplied(call, before) ==
    [before EXCEPT
       !.preferred_learning_style =
           IF call.learning_style \in LearningStyles
           THEN call.learning_style ELSE @,
       !.patience_level =
           IF call.patience_level.given
           THEN NumberValue(Clamp(call.patience_level.number, 0, 10))
           ELSE @,
       !.optimal_intervention_delay =
           IF call.optimal_intervention_delay.given
           THEN IF call.optimal_intervention_delay.number < 0
                THEN 0 ELSE call.optimal_intervention_delay.number
           ELSE @]

\* the keys of `updates` the handler has set at that point
ProfileChanges(call) ==
    (IF call.learning_style = None THEN {}
     ELSE IF call.learning_style \in LearningStyles
     THEN {"learning_style"}
     ELSE {"learning_style_error"})
    \cup
    (IF call.patience_level.given THEN {"patience_level"} ELSE {})
    \cup
    (IF call.optimal_intervention_delay.given
     THEN {"optimal_intervention_delay"} ELSE {})

\* what ends the handler before it returns, "" when nothing does
ProfileRaises(call) ==
    IF call.hint_preference # None /\ ImportFails("HintPreference")
    THEN "ImportError"
    ELSE IF call.encouragement_frequency.given
            /\ ~FieldDeclared("encouragement_frequency")
    THEN "ValueError"
    ELSE ""

UpdateStudentProfileCalled(call, save_fails) ==
    LET raises == ProfileRaises(call)
        updates == ProfileChanges(call)
        saves == raises = "" /\ updates # {}
        changes == IF ~saves THEN updates
                   ELSE IF save_fails
                   THEN updates \cup {"save_error"}
                   ELSE updates \cup {"saved"}
    IN  /\ Serve([name |-> "update_student_profile", args |-> call],
                 IF raises # "" THEN [raised |-> raises]
                 ELSE [updated |-> TRUE, changes |-> changes,
                       patience_level |->
                          IF call.patience_level.given
                          THEN Given(Clamp(call.patience_level.number, 0, 10))
                          ELSE NotGiven])
        /\ profile' = ProfileApplied(call, profile)
        /\ saved' = IF saves THEN saved + 1 ELSE saved
        /\ UNCHANGED <<observation_mode, observation_interval, last_set,
                       modeVars, audioVars>>

ProfileNext ==
    \E call \in ProfileCalls, save_fails \in BOOLEAN :
        UpdateStudentProfileCalled(call, save_fails)

InitProfile ==
    /\ ChatInit
    /\ max_iterations = 1
    /\ BridgeInit({})
    /\ HandlersInit
    /\ ToolsInit
    /\ LoopInit

SpecProfile == InitProfile /\ [][ProfileNext]_vars

\* C25 as stated: after update_student_profile was called with a
\* patience_level, the stored patience_level is that value clamped to
\* [0, 1], and likewise for encouragement_frequency.
C25_Original ==
    tcall.name = "update_student_profile"
    => /\ tcall.args.patience_level.given
          => profile.patience_level
             = NumberValue(Clamp(tcall.args.patience_level.number, 0, 10))
       /\ tcall.args.encouragement_frequency.given
          => /\ "encouragement_frequency" \in DOMAIN profile
             /\ profile.encouragement_frequency
                = NumberValue(Clamp(tcall.args.encouragement_frequency.number,
                                    0, 10))

\* C26 as stated: called with an unknown learning_style or hint_preference
\* and valid values for other fields, update_student_profile does not
\* raise, reports an error for that field and reports the valid fields.
C26_Original ==
    tcall.name = "update_student_profile"
    => LET changed == IF "changes" \in DOMAIN tresult
                      THEN tresult.changes ELSE {}
       IN  /\ tcall.args.learning_style = "bogus"
              => /\ "raised" \notin DOMAIN tresult
                 /\ "learning_style_error" \in changed
                 /\ tcall.args.patience_level.given
                    => "patience_level" \in changed
           /\ tcall.args.hint_preference = "bogus"
              => /\ "raised" \notin DOMAIN tresult
                 /\ "hint_preference_error" \in changed
                 /\ tcall.args.patience_level.given
                    => "patience_level" \in changed

(***************************************************************************)
(* SpecServer: the loop of a connected session, the stop endpoint, and the *)
(* end of websocket_endpoint.                                              *)
(***************************************************************************)
Terminated == {"returned", "cancelled"}

\* POST /session/{session_id}/stop
StopSession ==
    /\ active_sessions
    /\ active_sessions' = FALSE
    /\ active_connections' = FALSE
    /\ UNCHANGED <<chatVars, bridgeVars, loopVars, handlerVars, callVars,
                   modeVars, waitVars, audioVars, profileVars, cognitiveVars>>

\* the `finally` of websocket_endpoint after `await ai_task`:
\* `if session_id in active_connections: del active_connections[session_id]`
EndpointForgets ==
    /\ stopped
    /\ lpc \in Terminated
    /\ active_connections
    /\ active_connections' = FALSE
    /\ UNCHANGED <<chatVars, bridgeVars, loopVars, handlerVars, callVars,
                   modeVars, waitVars, audioVars, profileVars,
                   cognitiveVars, active_sessions>>

ServerNext ==
    \/ SpecLoopNext
    \/ StopSession
    \/ EndpointForgets

SpecServer == InitLoop /\ [][ServerNext]_vars

\* C29 (as stated): when the session state is discarded the loop has had
\* stop() called and has terminated, and no cycle begins once the state is
\* discarded.
C29_Original ==
    [][ /\ (active_sessions /\ ~active_sessions')
              => (stopped /\ lpc \in Terminated)
        /\ ~active_sessions => cycle_count' = cycle_count
      ]_vars

(***************************************************************************)
(* Texts, as the functions of the cognitive layer read them: a text is the *)
(* sequence of its words, a question mark being a word of its own.         *)
(***************************************************************************)

\* str.lower() of a word
LowerWord(w) ==
    CASE w = "Help" -> "help"
      [] w = "I'm" -> "i'm"
      [] w = "Stuck" -> "stuck"
      [] OTHER -> w

\* str.lower()
LowerText(text) == [i \in DOMAIN text |-> LowerWord(text[i])]

\* `phrase in text`
Occurs(phrase, text) ==
    \E i \in 1..Len(text) :
        /\ i + Len(phrase) <= Len(text) + 1
        /\ SubSeq(text, i, i + Len(phrase) - 1) = phrase

\* the sequences over S of length at most n
SeqsWithin(S, n) == UNION { [1..k -> S] : k \in 0..n }

Pending(r) == "pending" \in DOMAIN r

\* a call of calls is about to be made
InitCognitive(calls) ==
    /\ ChatInit
    /\ max_iterations = 1
    /\ BridgeInit({})
    /\ HandlersInit
    /\ LoopInit
    /\ ToolsAtRest
    /\ fcall \in calls
    /\ fresult = NoToolResult

(***************************************************************************)
(* SpecTriggers: TriggerDetector.check_triggers, one call on a session     *)
(* state drawn in the initial state.  Durations are in tenths of a second. *)
(***************************************************************************)
MaxBuffer == 2      \* entries in student_speech_buffer
DefaultSilenceThreshold == 30
RecentWindow == 5   \* seconds
TriggersNow == 10   \* datetime.now().timestamp()

SilenceThresholds == {DefaultSilenceThreshold, 100}
SilenceDurations == {0, 30, 31, 100, 150}
TriggerTexts == {<<"ok">>, <<"ok", "?">>, <<"Help">>}
TranscriptEntries == [text : TriggerTexts, timestamp : {3, 8}]
QuestionPhrases ==
    {<<"how", "do">>, <<"what", "is">>, <<"can", "you">>, <<"help">>}

TriggerCalls ==
    [name : {"check_triggers"},
     silence_threshold : SilenceThresholds,
     silence_duration : SilenceDurations,
     student_speech_buffer : SeqsWithin(TranscriptEntries, MaxBuffer),
     ai_internal_monologue : 0..1,
     has_visual_change : BOOLEAN]

\* f"silence_{silence_duration:.1f}s"
SilenceReason(silence_duration) ==
    "silence_" \o ToString(silence_duration \div 10) \o "."
               \o ToString(silence_duration % 10) \o "s"

\* SessionState.get_recent_transcripts(duration)
GetRecentTranscripts(buffer, duration, now) ==
    SelectSeq(buffer, LAMBDA entry : entry.timestamp > now - duration)

\* `"?" in last_text or any(q in last_text.lower() for q in [...])`
ExplicitQuestion(last_text) ==
    \/ Occurs(<<"?">>, last_text)
    \/ \E q \in QuestionPhrases : Occurs(q, LowerText(last_text))

\* a detector that wants two reasons
ShouldTriggerOnSeveral(triggers) == Len(triggers) > 1

\* `should_trigger = len(triggers) > 0`
ShouldTrigger(triggers) == Len(triggers) > 0

\* check_triggers(session_state, has_visual_change)
CheckTriggers(call, now) ==
    LET recent_transcripts ==
            GetRecentTranscripts(call.student_speech_buffer, RecentWindow, now)
        silence == IF call.silence_duration > call.silence_threshold
                   THEN <<SilenceReason(call.silence_duration)>> ELSE <<>>
        change == IF call.has_visual_change
                  THEN <<"whiteboard_change">> ELSE <<>>
        question ==
            IF /\ recent_transcripts # <<>>
               /\ ExplicitQuestion(
                      recent_transcripts[Len(recent_transcripts)].text)
            THEN <<"explicit_question">> ELSE <<>>
        initial == IF call.ai_internal_monologue = 0
                   THEN <<"initial_analysis">> ELSE <<>>
        triggers == silence \o change \o question \o initial
    IN  [should_trigger |-> ShouldTrigger(triggers), triggers |-> triggers]

CheckTriggersCalled ==
    /\ fcall.name = "check_triggers"
    /\ Pending(fresult)
    /\ fresult' = CheckTriggers(fcall, TriggersNow)
    /\ UNCHANGED <<chatVars, bridgeVars, loopVars, handlerVars, callVars,
                   modeVars, waitVars, audioVars, profileVars, serverVars,
                   fcall>>

InitTriggers == InitCognitive(TriggerCalls)

SpecTriggers == InitTriggers /\ [][CheckTriggersCalled]_vars

\* C31: check_triggers returns should_trigger true exactly when its list of
\* reasons is not empty; the list holds the silence reason whenever
\* silence_duration is above the detector's threshold, and holds
\* "initial_analysis" whenever the session has no monologue.
C31_TriggerReasons ==
    (fcall.name = "check_triggers" /\ ~Pending(fresult))
    => /\ fresult.should_trigger <=> fresult.triggers # <<>>
       /\ fcall.silence_duration > fcall.silence_threshold
              => SilenceReason(fcall.silence_duration)
                     \in Range(fresult.triggers)
       /\ fcall.ai_internal_monologue = 0
              => "initial_analysis" \in Range(fresult.triggers)

\* fifteen seconds of silence in a session with a monologue and nothing
\* else: the silence reason alone triggers
C31_Witness ==
    /\ fcall.name = "check_triggers"
    /\ fcall.silence_duration = 150
    /\ fcall.ai_internal_monologue = 1
    /\ ~Pending(fresult)
    /\ fresult.should_trigger
    /\ fresult.triggers = <<"silence_15.0s">>

(***************************************************************************)
(* SpecStuck: PedagogicalTools.detect_stuck_pattern, one call on arguments *)
(* drawn in the initial state.  Durations are in tenths of a second and    *)
(* scores in tenths.                                                       *)
(***************************************************************************)
MaxWords == 4       \* words in a transcript
LongSilence == 100
UnchangedWhiteboard == 150
SignificantLength == 3
RepetitionCount == 3
StuckThreshold == 4

StuckWords == {"I'm", "stuck", "again"}
StuckIndicators ==
    {<<"i'm", "stuck">>,
     <<"i", "can't", "figure", "this", "out">>,
     <<"i", "don't", "know", "what", "to", "do">>,
     <<"where", "do", "i", "start">>,
     <<"i", "give", "up">>}

\* len(word)
WordLength(w) ==
    CASE w = "i'm" -> 3
      [] w = "stuck" -> 5
      [] w = "again" -> 5
      [] OTHER -> 0

StuckCalls ==
    [name : {"detect_stuck_pattern"},
     transcript : SeqsWithin(StuckWords, MaxWords),
     silence_duration : {20, 100, 101, 150},
     whiteboard_unchanged_duration : {50, 150, 151, 200}]

\* `any(indicator in transcript_lower for indicator in stuck_indicators)`
HasStuckIndicator(transcript) ==
    \E indicator \in StuckIndicators : Occurs(indicator, LowerText(transcript))

\* word_freq[word] of the words longer than 3
WordFreq(words, word) ==
    Cardinality({ i \in DOMAIN words : words[i] = word })

\* `any(count > 3 for count in word_freq.values())`
HasRepetition(transcript) ==
    LET words == LowerText(transcript)
    IN  \E word \in Range(words) :
            /\ WordLength(word) > SignificantLength
            /\ WordFreq(words, word) > RepetitionCount

\* the score with the weights silence and whiteboard had before they were
\* increased
StuckScoreOldWeights(indicator, silence, whiteboard, repetition) ==
    Min((IF indicator THEN 5 ELSE 0)
        + (IF silence THEN 2 ELSE 0)
        + (IF whiteboard THEN 2 ELSE 0)
        + (IF repetition THEN 2 ELSE 0), 10)

\* stuck_score
StuckScore(indicator, silence, whiteboard, repetition) ==
    Min((IF indicator THEN 5 ELSE 0)
        + (IF silence THEN 3 ELSE 0)
        + (IF whiteboard THEN 3 ELSE 0)
        + (IF repetition THEN 2 ELSE 0), 10)

\* detect_stuck_pattern(transcript, silence_duration,
\* whiteboard_unchanged_duration)
DetectStuckPattern(call) ==
    LET has_stuck_indicator == HasStuckIndicator(call.transcript)
        long_silence == call.silence_duration > LongSilence
        unchanged_whiteboard ==
            call.whiteboard_unchanged_duration > UnchangedWhiteboard
        has_repetition == HasRepetition(call.transcript)
        stuck_score == StuckScore(has_stuck_indicator, long_silence,
                                  unchanged_whiteboard, has_repetition)
    IN  [is_stuck |-> stuck_score > StuckThreshold,
         stuck_score |-> stuck_score,
         has_stuck_indicator |-> has_stuck_indicator,
         long_silence |-> long_silence,
         unchanged_whiteboard |-> unchanged_whiteboard,
         has_repetition |-> has_repetition,
         indicators_found |->
             { ind \in StuckIndicators :
                   Occurs(ind, LowerText(call.transcript)) }]

DetectStuckPatternCalled ==
    /\ fcall.name = "detect_stuck_pattern"
    /\ Pending(fresult)
    /\ fresult' = DetectStuckPattern(fcall)
    /\ UNCHANGED <<chatVars, bridgeVars, loopVars, handlerVars, callVars,
                   modeVars, waitVars, audioVars, profileVars, serverVars,
                   fcall>>

InitStuck == InitCognitive(StuckCalls)

SpecStuck == InitStuck /\ [][DetectStuckPatternCalled]_vars

\* C32: whatever the transcript, detect_stuck_pattern with more than 10
\* seconds of silence and a whiteboard unchanged for more than 15 seconds
\* reports long_silence, unchanged_whiteboard and is_stuck; with a transcript
\* that holds no stuck phrase and no word repeated more than three times,
\* and both durations below those thresholds, it reports is_stuck false.
C32_StuckPattern ==
    (fcall.name = "detect_stuck_pattern" /\ ~Pending(fresult))
    => /\ ( /\ fcall.silence_duration > 100
            /\ fcall.whiteboard_unchanged_duration > 150 )
          => /\ fresult.long_silence
             /\ fresult.unchanged_whiteboard
             /\ fresult.is_stuck
       /\ ( /\ ~HasStuckIndicator(fcall.transcript)
            /\ ~HasRepetition(fcall.transcript)
            /\ fcall.silence_duration < 100
            /\ fcall.whiteboard_unchanged_duration < 150 )
          => ~fresult.is_stuck

\* an empty transcript, 15 seconds of silence and 20 seconds of unchanged
\* whiteboard: stuck, with a score of 0.6
C32_Witness ==
    /\ fcall.name = "detect_stuck_pattern"
    /\ fcall.transcript = <<>>
    /\ fcall.silence_duration = 150
    /\ fcall.whiteboard_unchanged_duration = 200
    /\ ~Pending(fresult)
    /\ fresult.is_stuck
    /\ fresult.stuck_score = 6

(***************************************************************************)
(* SpecHistory: the message list run_cycle builds when a cycle begins,     *)
(* and self.message_history as the responses of the cycles extend it.      *)
(***************************************************************************)
MaxEntries == 6     \* message_history grows to at most MaxEntries entries
HistoryWindow == 4  \* `self.message_history[-4:]`

\* what the reasoner may say in a response
Contents == {"hello", "good"}

SystemMessage == [role |-> "system", content |-> "AI_TUTOR_SYSTEM_PROMPT"]

\* `{"role": "user", "content": self._build_initial_prompt()}`
InitialPrompt == [role |-> "user", content |-> "A new observation cycle"]

\* `{"role": "assistant", "content": message["content"]}`
AssistantMessage(content) == [role |-> "assistant", content |-> content]

\* a window that keeps the oldest entries
RecentOldest(history) ==
    SubSeq(history, 1, Min(HistoryWindow, Len(history)))

\* `self.message_history[-4:]`
Recent(history) ==
    SubSeq(history, Len(history) - Min(HistoryWindow, Len(history)) + 1,
           Len(history))

\* the messages of run_cycle before its first call of chat_with_tools
CycleMessages(history) ==
    LET initial == <<SystemMessage, InitialPrompt>>
    IN  IF history # <<>>
        THEN SubSeq(initial, 1, 1) \o Recent(history)
             \o SubSeq(initial, 2, Len(initial))
        ELSE initial

\* a cycle begins: run_cycle builds its messages
CycleBuildsMessages ==
    /\ fresult' = [messages |-> CycleMessages(fcall.message_history),
                   history |-> fcall.message_history]
    /\ UNCHANGED <<chatVars, bridgeVars, loopVars, handlerVars, callVars,
                   modeVars, waitVars, audioVars, profileVars, serverVars,
                   fcall>>

\* a response of the cycle carries content: it is appended to the history
ContentAppended(content) ==
    /\ ~Pending(fresult)
    /\ Len(fcall.message_history) < MaxEntries
    /\ fcall' = [fcall EXCEPT !.message_history =
                                 Append(@, AssistantMessage(content))]
    /\ UNCHANGED <<chatVars, bridgeVars, loopVars, handlerVars, callVars,
                   modeVars, waitVars, audioVars, profileVars, serverVars,
                   fresult>>

HistoryNext ==
    \/ CycleBuildsMessages
    \/ \E content \in Contents : ContentAppended(content)

InitHistory ==
    InitCognitive({[name |-> "run_cycle", message_history |-> <<>>]})

SpecHistory == InitHistory /\ [][HistoryNext]_vars

\* C36: the messages a cycle starts with are the system prompt, then the
\* most recent entries of the history as it was when the cycle began (at
\* most 4, oldest first), then the instruction prompt; no older entry is
\* among them.
C36_InitialMessages ==
    (fcall.name = "run_cycle" /\ ~Pending(fresult))
    => LET built == fresult.messages
           history == fresult.history
           n == IF Len(history) < 4 THEN Len(history) ELSE 4
       IN  /\ Len(built) = n + 2
           /\ built[1] = SystemMessage
           /\ built[n + 2] = InitialPrompt
           /\ \A i \in 1..n : built[1 + i] = history[Len(history) - n + i]

\* a cycle began with six entries in the history, the two oldest of which
\* differ from the entries built in their place
C36_Witness ==
    /\ fcall.name = "run_cycle"
    /\ ~Pending(fresult)
    /\ Len(fresult.history) = 6
    /\ Len(fresult.messages) = 6
    /\ fresult.history[1] # fresult.history[3]
    /\ fresult.messages[2] = fresult.history[3]

(***************************************************************************)
(* Spec: one call of chat_with_tools, the bridge at rest.                  *)
(***************************************************************************)
Init ==
    /\ ChatInit
    /\ LoopInit
    /\ HandlersInit
    /\ ToolsInit
    /\ BridgeInit({})

Next == ChatNext

Spec == Init /\ [][Next]_vars

====
